---- MODULE Spec2Model ----
(***************************************************************************)
(* CueForge: the cue state machine (Cue.cpp / Cue.h) and the cue list      *)
(* manager (CueManager.cpp / CueManager.h).                                *)
(*                                                                         *)
(* Units: times are in milliseconds (preWait 1000 is 1.0 s), so the        *)
(* epsilon 0.001 of setPreWait and setPostWait is 1; positions are in      *)
(* steps of 0.0005 (currentPosition 2000 is 1.0), so the epsilon 0.001 of  *)
(* setCurrentPosition is 2.                                                *)
(*                                                                         *)
(* The per-kind parts of a cue (AudioCue.cpp, GroupCue): execute, stop,    *)
(* pause, resume, the completion signal of the playback backend and the    *)
(* group's child list follow the design document of the cue envelope.      *)
(*                                                                         *)
(* cueListLock_ is a default constructed (non recursive) QReadWriteLock.   *)
(* Each manager operation is one action that runs the statements of the    *)
(* handler in order; an attempt to take cueListLock_ again while the same  *)
(* call already holds it for writing is recorded in last.relock and the    *)
(* remaining statements are still run, so that what the handler computes   *)
(* and whether it can block on itself are examined separately.             *)
(*                                                                         *)
(* Calls made on different threads at the same time are followed lock by   *)
(* lock in the variable threads; everywhere else no thread is inside a     *)
(* call when the next one starts.                                          *)
(***************************************************************************)
EXTENDS Integers, Sequences, FiniteSets, TLC

VARIABLES
    cue,                    \* [Ids -> cue object]: every Cue ever constructed
    cues_,                  \* CueManager::cues_, the top-level list (ids)
    selectedCueIds_,        \* CueManager::selectedCueIds_ (a QStringList)
    standByCueId_,          \* CueManager::standByCueId_ (NoId when empty)
    activeCues_,            \* CueManager::activeCues_ (a QList<Cue*>)
    isPaused_,              \* CueManager::isPaused_
    hasUnsavedChanges_,     \* CueManager::hasUnsavedChanges_
    groupExpansionState_,   \* CueManager::groupExpansionState_ (id -> bool)
    last,                   \* the call that produced this state
    threads                 \* the manager call each thread is in, lock by lock

vars == <<cue, cues_, selectedCueIds_, standByCueId_, activeCues_, isPaused_,
          hasUnsavedChanges_, groupExpansionState_, last, threads>>

mgrVars == <<cues_, selectedCueIds_, standByCueId_, isPaused_, groupExpansionState_>>

\* ------------------------------------------------------------------ bounds

MaxCues == 3        \* cues constructed while selecting (ids are never reused)
MaxPlay == 2        \* cues constructed while running the list
MaxRuns == 2        \* successful triggers / completions counted per cue
MaxArg == 2         \* length of an id list passed to a manager operation
MaxNums == 4        \* length of the list whose numbers getNextCueNumber reads
MaxList == 3        \* length of the list that is regrouped and reordered
MaxGroups == 1      \* groups created from cues of that list
MaxStand == 3       \* length of the list the standby is advanced through
MaxSets == 3        \* setter calls on the cue that is serialized
MaxThreads == 2     \* threads that call the manager at the same time
MaxLookups == 1     \* ids a call looks up one by one with getCue

Max(S) == CHOOSE x \in S : \A y \in S : y <= x

Ids == 1..Max({MaxCues, MaxPlay, MaxNums, MaxList + MaxGroups, MaxStand})
NoId == 0           \* the empty QString used as "no cue"

\* ----------------------------------------------------------------- helpers

Range(s) == {s[i] : i \in 1..Len(s)}

Abs(x) == IF x < 0 THEN -x ELSE x

qMax(a, b) == IF a < b THEN b ELSE a

qBound(lo, v, hi) == qMax(lo, IF v < hi THEN v ELSE hi)

\* QList::removeAll
RECURSIVE removeAll(_, _)
removeAll(s, x) ==
    IF s = <<>> THEN <<>>
    ELSE IF Head(s) = x THEN removeAll(Tail(s), x)
    ELSE <<Head(s)>> \o removeAll(Tail(s), x)

\* QList::removeAt with a 0-based index inside the list
removeAt(s, i) == SubSeq(s, 1, i) \o SubSeq(s, i + 2, Len(s))

\* QList::insert(i, x) with a 0-based index in 0..size
insert(s, i, x) == SubSeq(s, 1, i) \o <<x>> \o SubSeq(s, i + 1, Len(s))

\* QList::contains
contains(s, x) == x \in Range(s)

\* ------------------------------------------------------------- cue objects

CueStatus == {"Loaded", "Playing", "Paused", "Stopped", "Loading", "Broken", "Armed"}

\* Cue::Cue: the fields a fresh cue object starts with.  life is "unborn" for
\* an id no object has yet, "live" after construction, "deleted" after
\* deleteLater / qDeleteAll.  connected: connectCueSignals has wired the cue
\* to the manager.  nTrigger, nExecute, nFinished count aboutToExecute,
\* calls of the execution hook and executionFinished.
NewCue(type) ==
    [ life |-> "live", type |-> type, number |-> <<"1">>, status |-> "Loaded",
      continueMode |-> FALSE, preWait |-> 0, postWait |-> 0,
      currentPosition |-> 0, lastExecutedTime |-> FALSE,
      preWaitTimer |-> FALSE, postWaitTimer |-> FALSE,
      inPreWait |-> FALSE, inPostWait |-> FALSE,
      children |-> <<>>, connected |-> FALSE,
      nTrigger |-> 0, nExecute |-> 0, nFinished |-> 0 ]

NoCue == [NewCue("Audio") EXCEPT !.life = "unborn"]

\* a cue object after deleteLater / delete: nothing of it can be read (the
\* kind is kept to count the objects that were made)
Deleted(c) == [NoCue EXCEPT !.life = "deleted", !.type = c.type]

isExecuting(c) == c.status = "Playing" \/ c.status = "Loading"

\* Cue::canExecute (canExecute_M also lets a Stopped cue run)
canExecute_M(c) == c.status = "Loaded" \/ c.status = "Armed" \/ c.status = "Stopped"

canExecute(c) == c.status = "Loaded" \/ c.status = "Armed"

\* Cue::setStatus (setStatus_M tests for the same status instead)
setStatus_M(c, s) == IF c.status = s THEN [c EXCEPT !.status = s] ELSE c

setStatus(c, s) == IF c.status # s THEN [c EXCEPT !.status = s] ELSE c

setPreWait(c, v) ==
    IF Abs(c.preWait - v) > 1 THEN [c EXCEPT !.preWait = qMax(0, v)] ELSE c

setPostWait(c, v) ==
    IF Abs(c.postWait - v) > 1 THEN [c EXCEPT !.postWait = qMax(0, v)] ELSE c

setContinueMode(c, b) == [c EXCEPT !.continueMode = b]

setCurrentPosition(c, p) ==
    LET newPosition == qBound(0, p, 2000)
    IN  IF Abs(c.currentPosition - newPosition) > 2
        THEN [c EXCEPT !.currentPosition = newPosition] ELSE c

setProgress(c, p) == setCurrentPosition(c, qBound(0, p, 2000))

\* The execution hook (AudioCue::execute): on entry the cue is Playing.
execute(c) == [setStatus(c, "Playing") EXCEPT !.nExecute = @ + 1]

\* Cue::executePreWait (executePreWait_M does not enter Loading)
executePreWait_M(c) ==
    IF c.preWait <= 0 THEN execute(c)
    ELSE [c EXCEPT !.inPreWait = TRUE, !.preWaitTimer = TRUE]

executePreWait(c) ==
    IF c.preWait <= 0 THEN execute(c)
    ELSE [setStatus(c, "Loading") EXCEPT !.inPreWait = TRUE, !.preWaitTimer = TRUE]

trigger(c) ==
    IF ~canExecute(c) THEN c
    ELSE LET t == [c EXCEPT !.nTrigger = @ + 1]
         IN  IF c.preWait > 0 THEN executePreWait(t) ELSE execute(t)

\* Cue::cleanupExecution
cleanupExecution(c) ==
    [setStatus(setCurrentPosition([c EXCEPT !.lastExecutedTime = TRUE], 2000), "Stopped")
        EXCEPT !.inPreWait = FALSE, !.inPostWait = FALSE, !.nFinished = @ + 1]

executePostWait(c) ==
    IF c.postWait <= 0 THEN cleanupExecution(c)
    ELSE [c EXCEPT !.inPostWait = TRUE, !.postWaitTimer = TRUE]

onPreWaitFinished(c) == execute([c EXCEPT !.preWaitTimer = FALSE, !.inPreWait = FALSE])

onPostWaitFinished(c) ==
    cleanupExecution([c EXCEPT !.postWaitTimer = FALSE, !.inPostWait = FALSE])

reset(c) ==
    [setCurrentPosition(setStatus(c, "Loaded"), 0)
        EXCEPT !.preWaitTimer = FALSE, !.postWaitTimer = FALSE,
               !.inPreWait = FALSE, !.inPostWait = FALSE]

\* stop (AudioCue::stop): cancels a pending pre-wait or post-wait delay and
\* lands the cue in Stopped; Broken is terminal.
stop(c) ==
    IF c.status = "Broken" THEN c
    ELSE [setStatus(c, "Stopped")
            EXCEPT !.preWaitTimer = FALSE, !.postWaitTimer = FALSE,
                   !.inPreWait = FALSE, !.inPostWait = FALSE]

\* pause / resume (AudioCue): valid only from Playing / Paused.
pause(c) == IF c.status = "Playing" THEN setStatus(c, "Paused") ELSE c

resume(c) == IF c.status = "Paused" THEN setStatus(c, "Playing") ELSE c

\* cueUpdated is emitted when a setter changed a property.
cueUpdated(c, d) ==
    \/ c.status # d.status
    \/ c.preWait # d.preWait
    \/ c.postWait # d.postWait
    \/ c.continueMode # d.continueMode
    \/ c.number # d.number

\* ----------------------------------------------------- the call just made

\* last records the call that produced the state, for the calls the
\* properties below speak of (Observed); any other call leaves Other.  A
\* record holds op and what the call reported; for a call on one cue: id,
\* was (the status and the pending delays of the cue when the call was made)
\* and same (the call left every field of the cue as it was).  before is
\* the list the call found, prev the record of the call before it when that
\* was a createGroupFromCues.
Observed == {"trigger", "stop", "onPostWaitFinished", "removeCues", "panic",
             "createGroupFromCues", "ungroupCues", "moveCues", "getNextCueNumber",
             "advanceStandBy", "go", "pause", "resume", "reset", "addCueAt",
             "fromJson", "resequenceCues", "getFlattenedCues", "selectCues",
             "processCueExecution"}

Other == [op |-> "other"]

Seen(call) == IF call.op \in Observed THEN call ELSE Other

\* the call ran as one step: it is recorded, and no thread is part way
\* through another call
Called(call) == last' = Seen(call) /\ UNCHANGED threads

NoCall == [op |-> "none"]

CueCall(op, i, d) ==
    [op |-> op, id |-> i,
     was |-> [status |-> cue[i].status, preWaitTimer |-> cue[i].preWaitTimer,
              postWaitTimer |-> cue[i].postWaitTimer],
     same |-> (d = cue[i])]

\* ------------------------------------------------- calls on a single cue

\* What a call on cue i that leaves it as d does to the manager through the
\* connected signals: cueUpdated -> onCuePropertyChanged ->
\* markWorkspaceModified, executionFinished -> onCueExecutionFinished.
onCueExecutionFinished(active, i) == removeAll(active, i)

CueStep(i, d, op) ==
    /\ cue' = [cue EXCEPT ![i] = d]
    /\ activeCues_' =
          IF cue[i].connected /\ d.nFinished # cue[i].nFinished
          THEN onCueExecutionFinished(activeCues_, i) ELSE activeCues_
    /\ hasUnsavedChanges_' =
          (hasUnsavedChanges_ \/ (cue[i].connected /\ cueUpdated(cue[i], d)))
    /\ Called(CueCall(op, i, d))
    /\ UNCHANGED mgrVars

Live(i) == cue[i].life = "live"

Trigger(i) ==
    /\ Live(i)
    /\ cue[i].nTrigger < MaxRuns
    /\ CueStep(i, trigger(cue[i]), "trigger")

\* preWaitTimer_ times out (single shot)
PreWaitTimeout(i) ==
    /\ Live(i)
    /\ cue[i].preWaitTimer
    /\ CueStep(i, onPreWaitFinished(cue[i]), "onPreWaitFinished")

\* postWaitTimer_ times out (single shot)
PostWaitTimeout(i) ==
    /\ Live(i)
    /\ cue[i].postWaitTimer
    /\ CueStep(i, onPostWaitFinished(cue[i]), "onPostWaitFinished")

\* The execution hook signals completion: the cue is playing its content
\* (not waiting out its post-wait).
ExecutionCompleted(i) ==
    /\ Live(i)
    /\ cue[i].status = "Playing"
    /\ ~cue[i].postWaitTimer
    /\ cue[i].nFinished < MaxRuns
    /\ CueStep(i, executePostWait(cue[i]), "executePostWait")

\* The backend reports a playback position
ProgressInputs == {-200, 1, 1000, 1999, 2400}

PositionUpdate(i) ==
    /\ Live(i)
    /\ cue[i].status = "Playing"
    /\ \E p \in ProgressInputs :
          CueStep(i, setProgress(cue[i], p), "setProgress")

StopCue(i) == Live(i) /\ CueStep(i, stop(cue[i]), "stop")

PauseCue(i) == Live(i) /\ CueStep(i, pause(cue[i]), "pauseCue")

ResumeCue(i) == Live(i) /\ CueStep(i, resume(cue[i]), "resumeCue")

ResetCue(i) == Live(i) /\ CueStep(i, reset(cue[i]), "reset")

SetStatus(i) ==
    /\ Live(i)
    /\ \E s \in CueStatus :
          CueStep(i, setStatus(cue[i], s), "setStatus")

WaitInputs == {-1000, 0, 1000}

SetPreWait(i) ==
    /\ Live(i)
    /\ \E v \in WaitInputs :
          CueStep(i, setPreWait(cue[i], v), "setPreWait")

SetPostWait(i) ==
    /\ Live(i)
    /\ \E v \in WaitInputs :
          CueStep(i, setPostWait(cue[i], v), "setPostWait")

SetContinueMode(i) ==
    /\ Live(i)
    /\ \E b \in BOOLEAN :
          CueStep(i, setContinueMode(cue[i], b), "setContinueMode")

\* ------------------------------------------------------- cue numbers

\* A cue number is a QString: here a sequence of one-character strings.
Digits == {"0", "1", "2", "3", "4", "5", "6", "7", "8", "9"}

DigitValue(ch) ==
    CASE ch = "0" -> 0 [] ch = "1" -> 1 [] ch = "2" -> 2 [] ch = "3" -> 3
      [] ch = "4" -> 4 [] ch = "5" -> 5 [] ch = "6" -> 6 [] ch = "7" -> 7
      [] ch = "8" -> 8 [] ch = "9" -> 9

DigitChar(d) ==
    CASE d = 0 -> "0" [] d = 1 -> "1" [] d = 2 -> "2" [] d = 3 -> "3"
      [] d = 4 -> "4" [] d = 5 -> "5" [] d = 6 -> "6" [] d = 7 -> "7"
      [] d = 8 -> "8" [] d = 9 -> "9"

RECURSIVE DigitsValue(_)
DigitsValue(s) ==
    IF s = <<>> THEN 0
    ELSE 10 * DigitsValue(SubSeq(s, 1, Len(s) - 1)) + DigitValue(s[Len(s)])

RECURSIVE Pow10(_)
Pow10(n) == IF n = 0 THEN 1 ELSE 10 * Pow10(n - 1)

\* QString::toDouble(&ok) on the decimal notation: an optional sign, digits
\* with at most one point, at least one digit.  The value is the exact
\* fraction num / den (den > 0); ok is false for any other text.
toDouble(s) ==
    LET signed == s # <<>> /\ s[1] \in {"-", "+"}
        body == IF signed THEN Tail(s) ELSE s
        points == {k \in 1..Len(body) : body[k] = "."}
        point == IF points = {} THEN Len(body) + 1
                 ELSE CHOOSE k \in points : \A m \in points : k <= m
        whole == SubSeq(body, 1, point - 1)
        frac == SubSeq(body, point + 1, Len(body))
        ok == /\ Cardinality(points) <= 1
              /\ Len(whole) + Len(frac) >= 1
              /\ \A k \in 1..Len(body) : body[k] \in Digits \cup {"."}
        mag == DigitsValue(whole \o frac)
    IN  IF ok
        THEN [ok |-> TRUE,
              num |-> IF signed /\ s[1] = "-" THEN -mag ELSE mag,
              den |-> Pow10(Len(frac))]
        ELSE [ok |-> FALSE, num |-> 0, den |-> 1]

RECURSIVE NatToString(_)
NatToString(n) ==
    IF n < 10 THEN <<DigitChar(n)>>
    ELSE NatToString(n \div 10) \o <<DigitChar(n % 10)>>

\* QString::number(num / den, 'f', 0) for a value >= 0: no decimals, a half
\* rounded away from zero.
numberF0(num, den) == NatToString((2 * num + den) \div (2 * den))

\* CueManager::getNextCueNumber: the loop over the numbers of the list, in
\* order (highestNumber_M compares each number with 0.0, not with the highest
\* so far).
RECURSIVE highestNumber_M(_, _)
highestNumber_M(numbers, highest) ==
    IF numbers = <<>> THEN highest
    ELSE LET n == toDouble(Head(numbers))
         IN  highestNumber_M(Tail(numbers),
                IF n.ok /\ n.num > 0
                THEN [num |-> n.num, den |-> n.den] ELSE highest)

RECURSIVE highestNumber(_, _)
highestNumber(numbers, highest) ==
    IF numbers = <<>> THEN highest
    ELSE LET n == toDouble(Head(numbers))
         IN  highestNumber(Tail(numbers),
                IF n.ok /\ n.num * highest.den > highest.num * n.den
                THEN [num |-> n.num, den |-> n.den] ELSE highest)

getNextCueNumberOf(numbers) ==
    LET h == highestNumber(numbers, [num |-> 0, den |-> 1])
    IN  numberF0(h.num + h.den, h.den)

\* ------------------------------------------------------------ the manager

numbersOf(cs, list) == [k \in 1..Len(list) |-> cs[list[k]].number]

getNextCueNumber(cs, list) == getNextCueNumberOf(numbersOf(cs, list))

\* CueManager::findCueIndex: 0-based, -1 when absent
findCueIndex(list, id) ==
    IF \E k \in 1..Len(list) : list[k] = id
    THEN (CHOOSE k \in 1..Len(list) :
            list[k] = id /\ \A m \in 1..(k - 1) : list[m] # id) - 1
    ELSE -1

\* CueManager::getCue: the cue of the top-level list with this id, or null
getCue(list, id) == IF findCueIndex(list, id) >= 0 THEN id ELSE NoId

isCueExecutable(cs, id) == id # NoId /\ canExecute(cs[id])

\* CueManager::findNextExecutableCue
findNextExecutableCue(cs, list, fromCueId) ==
    LET startIndex == IF fromCueId # NoId THEN findCueIndex(list, fromCueId) + 1 ELSE 0
        found == {k \in (startIndex + 1)..Len(list) : isCueExecutable(cs, list[k])}
    IN  IF found = {} THEN NoId
        ELSE list[CHOOSE k \in found : \A m \in found : k <= m]

\* CueManager::createCueOfType (createCueOfType_M makes a cue of any kind)
createCueOfType_M(type) == NewCue(type)

createCueOfType(type) == IF type \in {"Audio", "Group"} THEN NewCue(type) ELSE NoCue

\* the id of the next cue object constructed (a fresh QUuid)
FreshId(cs) == CHOOSE i \in Ids : cs[i].life = "unborn" /\ \A j \in 1..(i - 1) : cs[j].life # "unborn"

\* CueManager::insertCueAt (insertCueAt_M inserts behind the index)
insertCueAt_M(list, id, index) == insert(list, qBound(0, index + 1, Len(list)), id)

insertCueAt(list, id, index) == insert(list, qBound(0, index, Len(list)), id)

\* CueManager::ensureValidSelection
RECURSIVE validIds(_, _)
validIds(list, ids) ==
    IF ids = <<>> THEN <<>>
    ELSE IF getCue(list, Head(ids)) # NoId
         THEN <<Head(ids)>> \o validIds(list, Tail(ids))
         ELSE validIds(list, Tail(ids))

ensureValidSelection(list, selection) ==
    LET validSelection == validIds(list, selection)
    IN  IF Len(validSelection) # Len(selection) THEN validSelection ELSE selection

\* CueManager::selectCues (selectCues_M takes the ids as they come)
selectCues_M(list, selection, cueIds) == IF selection # cueIds THEN cueIds ELSE selection

selectCues(list, selection, cueIds) ==
    LET validCueIds == validIds(list, cueIds)
    IN  IF selection # validCueIds THEN validCueIds ELSE selection

\* CueManager::updateStandByCue
updateStandByCue(cs, list, standBy) ==
    IF getCue(list, standBy) = NoId THEN findNextExecutableCue(cs, list, NoId)
    ELSE standBy


\* CueManager::markWorkspaceModified happens when a connected cue emits
\* cueUpdated: some connected cue differs in a property between cs and ds.
anyCueUpdated(cs, ds) == \E i \in Ids : cs[i].connected /\ cueUpdated(cs[i], ds[i])

\* the cues a group owns, directly or through nested groups
RECURSIVE Descendants(_, _)
Descendants(cs, g) ==
    Range(cs[g].children) \cup
    UNION {Descendants(cs, k) : k \in Range(cs[g].children)}

\* ---- threads

\* A thread is idle or inside one manager call, of which it has the locks
\* held (the latest last) and the lock operations todo.
Threads == 1..MaxThreads

Idle == [op |-> "idle", held |-> <<>>, todo |-> <<>>]

\* ---- cueListLock_ and the signals

\* What a handler does with cueListLock_ and which signals it emits, in
\* order: "lockForWrite" is the QWriteLocker at its top, "unlock" the end of
\* the locker's scope, any other entry a signal.  (The read locks the
\* handler's callees take are not part of the trace.)
LockEvents == {"lockForWrite", "unlock"}

\* the number of locks held just before entry k of the trace
Held(trace, k) ==
    Cardinality({j \in 1..(k - 1) : trace[j] = "lockForWrite"})
        - Cardinality({j \in 1..(k - 1) : trace[j] = "unlock"})

\* the signals of the trace emitted while the lock is held
emittedLocked(trace) ==
    {trace[k] : k \in {j \in 1..Len(trace) :
                          trace[j] \notin LockEvents /\ Held(trace, j) > 0}}

\* the signals of the trace, in the order they are emitted
emitted(trace) == SelectSeq(trace, LAMBDA e : e \notin LockEvents)

\* CueManager::markWorkspaceModified
markWorkspaceModified(unsaved) ==
    IF ~unsaved THEN <<"workspaceChanged", "workspaceModified">> ELSE <<>>

\* CueManager::setStandByCue, called with a standby that differs or not
setStandByCueEmits(changed) ==
    IF changed THEN <<"playheadChanged", "standByCueChanged">> ELSE <<>>

addCueAtTrace(made, unsaved) ==
    <<"lockForWrite">>
        \o (IF made
            THEN markWorkspaceModified(unsaved) \o <<"cueAdded", "cueCountChanged">>
            ELSE <<>>)
        \o <<"unlock">>

\* n cues removed; the standby, or the selection, changed in the clean-up
\* (removeCuesTrace_M emits the three closing signals whatever n is)
removeCuesTrace_M(n, unsaved, standByChanged, selectionChanged) ==
    <<"lockForWrite">>
        \o [k \in 1..n |-> "cueRemoved"]
        \o (IF n > 0
            THEN markWorkspaceModified(unsaved)
                   \o setStandByCueEmits(standByChanged)
                   \o (IF selectionChanged THEN <<"selectionChanged">> ELSE <<>>)
            ELSE <<>>)
        \o <<"cueCountChanged", "selectionChanged", "playheadChanged">>
        \o <<"unlock">>

removeCuesTrace(n, unsaved, standByChanged, selectionChanged) ==
    <<"lockForWrite">>
        \o [k \in 1..n |-> "cueRemoved"]
        \o (IF n > 0
            THEN markWorkspaceModified(unsaved)
                   \o setStandByCueEmits(standByChanged)
                   \o (IF selectionChanged THEN <<"selectionChanged">> ELSE <<>>)
                   \o <<"cueCountChanged", "selectionChanged", "playheadChanged">>
            ELSE <<>>)
        \o <<"unlock">>

\* n cues moved
moveCuesTrace(ok, n, unsaved) ==
    <<"lockForWrite">>
        \o (IF ok THEN markWorkspaceModified(unsaved) \o [k \in 1..n |-> "cueMoved"]
            ELSE <<>>)
        \o <<"unlock">>

\* ---- selectionMutex_ and playheadMutex_

\* What a handler does with the two mutexes and with the members they are
\* for, in order: <<"lock", m>> and <<"unlock", m>> are a QMutexLocker on m
\* and its end, <<"read", v>> and <<"write", v>> an access to member v.
Guard(v) == IF v = "selectedCueIds_" THEN "selectionMutex_" ELSE "playheadMutex_"

\* the accesses of the trace made while the mutex of the member is not held
unguarded(trace) ==
    {trace[k] : k \in {j \in 1..Len(trace) :
        /\ trace[j][1] \in {"read", "write"}
        /\ Cardinality({i \in 1..(j - 1) : trace[i] = <<"lock", Guard(trace[j][2])>>})
             = Cardinality({i \in 1..(j - 1) : trace[i] = <<"unlock", Guard(trace[j][2])>>})}}

\* CueManager::setStandByCue, called with a standby that differs or not
setStandByCueAccess(changed) ==
    <<<<"lock", "playheadMutex_">>, <<"read", "standByCueId_">>>>
        \o (IF changed THEN <<<<"write", "standByCueId_">>>> ELSE <<>>)
        \o <<<<"unlock", "playheadMutex_">>>>

\* CueManager::advanceStandBy: a next cue was found or not
advanceStandByAccess(found, changed) ==
    <<<<"read", "standByCueId_">>>>
        \o (IF found THEN setStandByCueAccess(changed) ELSE <<>>)

\* CueManager::selectCues: the valid ids differ from the selection or not
selectCuesAccess(changed) ==
    <<<<"lock", "selectionMutex_">>, <<"read", "selectedCueIds_">>>>
        \o (IF changed
            THEN <<<<"write", "selectedCueIds_">>, <<"read", "selectedCueIds_">>>>
            ELSE <<>>)
        \o <<<<"unlock", "selectionMutex_">>>>

\* CueManager::removeCues: n cues found, cleared of them the standby; lost:
\* updateStandByCue finds no standby cue and calls setStandByCue
removeCuesAccess(n, cleared, lost, changed) ==
    [k \in 1..(2 * n) |-> IF k % 2 = 1 THEN <<"write", "selectedCueIds_">>
                          ELSE <<"read", "standByCueId_">>]
        \o [k \in 1..cleared |-> <<"write", "standByCueId_">>]
        \o (IF n > 0
            THEN <<<<"read", "standByCueId_">>>>
                   \o (IF lost THEN setStandByCueAccess(changed) ELSE <<>>)
                   \o <<<<"lock", "selectionMutex_">>, <<"read", "selectedCueIds_">>,
                        <<"unlock", "selectionMutex_">>>>
            ELSE <<>>)

\* CueManager::selectCues: the signals
selectCuesEmits(changed) ==
    IF changed THEN <<"selectionChanged", "selectedCuesChanged">> ELSE <<>>

\* ---- addCueAt

NoOptions == [has |-> FALSE, number |-> <<>>]

AddCueAt(limit, type, index, options) ==
    LET made == createCueOfType(type)
        id == FreshId(cue)
        number == IF options.has THEN options.number ELSE getNextCueNumber(cue, cues_)
        at == qBound(0, index, Len(cues_))
    IN  /\ options.has \/ options.number = <<>>
        /\ IF made.life = "unborn"
           THEN /\ Called([op |-> "addCueAt", type |-> type, id |-> NoId, index |-> index,
                                  relock |-> FALSE,
                                  emits |-> emitted(addCueAtTrace(FALSE, hasUnsavedChanges_)),
                                  lockedEmits |-> emittedLocked(
                                      addCueAtTrace(FALSE, hasUnsavedChanges_))])
                /\ UNCHANGED <<cue, cues_, selectedCueIds_, standByCueId_, activeCues_,
                               isPaused_, hasUnsavedChanges_, groupExpansionState_>>
           ELSE /\ Cardinality({i \in Ids : cue[i].life # "unborn"}) < limit
                /\ cue' = [cue EXCEPT ![id] = [made EXCEPT !.number = number,
                                                            !.connected = TRUE]]
                /\ cues_' = insertCueAt(cues_, id, at)
                /\ hasUnsavedChanges_' = TRUE
                /\ Called([op |-> "addCueAt", type |-> type, id |-> id, index |-> index,
                                  relock |-> ~options.has,
                                  emits |-> emitted(addCueAtTrace(TRUE, hasUnsavedChanges_)),
                                  lockedEmits |-> emittedLocked(
                                      addCueAtTrace(TRUE, hasUnsavedChanges_))])
                /\ UNCHANGED <<selectedCueIds_, standByCueId_, activeCues_, isPaused_,
                               groupExpansionState_>>

\* ---- removeCues

\* In the record of a removeCues call, absent: ids were passed and none of
\* them is the id of a cue of the list; emits: the signals it emitted.
\* One round of the loop of removeCues, for cueId.  m carries the manager
\* through the loop: cs the cue objects, list cues_, sel selectedCueIds_,
\* standBy standByCueId_, active activeCues_, any anyRemoved, the cues
\* removed, those stop() was called on, and those still executing at the
\* moment they left the list.
\* (removeOne_M leaves the active set as it is)
removeOne_M(m, cueId) ==
    LET index == findCueIndex(m.list, cueId)
        c == m.cs[cueId]
        d == IF isExecuting(c) THEN stop(c) ELSE c
        gone == {cueId} \cup Descendants(m.cs, cueId)
    IN  IF index < 0 THEN m
        ELSE [m EXCEPT
                !.cs = [i \in Ids |->
                          IF i \in gone THEN Deleted(m.cs[i])
                          ELSE m.cs[i]],
                !.list = removeAt(m.list, index),
                !.sel = removeAll(m.sel, cueId),
                !.standBy = IF m.standBy = cueId THEN NoId ELSE m.standBy,
                !.any = TRUE,
                !.stopped = IF isExecuting(c) THEN @ \cup {cueId} ELSE @,
                !.running = IF isExecuting(d) THEN @ \cup {cueId} ELSE @,
                !.removed = @ \cup {cueId}]

removeOne(m, cueId) ==
    LET index == findCueIndex(m.list, cueId)
        c == m.cs[cueId]
        d == IF isExecuting(c) THEN stop(c) ELSE c
        gone == {cueId} \cup Descendants(m.cs, cueId)
    IN  IF index < 0 THEN m
        ELSE [m EXCEPT
                !.cs = [i \in Ids |->
                          IF i \in gone THEN Deleted(m.cs[i])
                          ELSE m.cs[i]],
                !.list = removeAt(m.list, index),
                !.sel = removeAll(m.sel, cueId),
                !.standBy = IF m.standBy = cueId THEN NoId ELSE m.standBy,
                !.active = removeAll(m.active, cueId),
                !.any = TRUE,
                !.stopped = IF isExecuting(c) THEN @ \cup {cueId} ELSE @,
                !.running = IF isExecuting(d) THEN @ \cup {cueId} ELSE @,
                !.removed = @ \cup {cueId}]

RECURSIVE removeEach(_, _)
removeEach(m, cueIds) ==
    IF cueIds = <<>> THEN m
    ELSE removeEach(removeOne(m, Head(cueIds)), Tail(cueIds))

RemoveCues(cueIds) ==
    \E m \in {removeEach([cs |-> cue, list |-> cues_, sel |-> selectedCueIds_,
                           standBy |-> standByCueId_, active |-> activeCues_,
                           any |-> FALSE, stopped |-> {}, running |-> {},
                           removed |-> {}], cueIds)} :
    \E standBy \in {IF m.any THEN updateStandByCue(m.cs, m.list, m.standBy)
                     ELSE m.standBy} :
    \E sel \in {IF m.any THEN ensureValidSelection(m.list, m.sel) ELSE m.sel} :
    \E trace \in {removeCuesTrace(Cardinality(m.removed), hasUnsavedChanges_,
                                  standBy # m.standBy, sel # m.sel)} :
        /\ cue' = m.cs
        /\ cues_' = m.list
        /\ activeCues_' = m.active
        /\ hasUnsavedChanges_' = (hasUnsavedChanges_ \/ m.any)
        /\ standByCueId_' = standBy
        /\ selectedCueIds_' = sel
        /\ Called([op |-> "removeCues", ok |-> m.any,
                    removed |-> m.removed, stopped |-> m.stopped,
                    running |-> m.running,
                    deselected |-> m.removed \cap Range(selectedCueIds_),
                    wasActive |-> m.removed \cap Range(activeCues_),
                    relock |-> m.any,
                    absent |-> (cueIds # <<>> /\ Range(cueIds) \cap Range(cues_) = {}),
                    emits |-> emitted(trace),
                    lockedEmits |-> emittedLocked(trace),
                    unguarded |-> unguarded(removeCuesAccess(
                        Cardinality(m.removed),
                        IF standByCueId_ \in m.removed THEN 1 ELSE 0,
                        m.any /\ getCue(m.list, m.standBy) = NoId,
                        standBy # m.standBy))])
        /\ UNCHANGED <<isPaused_, groupExpansionState_>>

\* ---- selection

Select(op, cueIds) ==
    /\ selectedCueIds_' = selectCues(cues_, selectedCueIds_, cueIds)
    /\ Called([op |-> op,
                     emits |-> selectCuesEmits(selectedCueIds_ # validIds(cues_, cueIds)),
                     unguarded |-> unguarded(selectCuesAccess(
                                      selectedCueIds_ # validIds(cues_, cueIds)))])
    /\ UNCHANGED <<cue, cues_, standByCueId_, activeCues_, isPaused_,
                   hasUnsavedChanges_, groupExpansionState_>>

SelectCues(cueIds) == Select("selectCues", cueIds)

ClearSelection == Select("clearSelection", <<>>)

SelectAll == Select("selectAll", cues_)

ToggleCueSelection(cueId) ==
    Select("toggleCueSelection",
           IF contains(selectedCueIds_, cueId)
           THEN removeAll(selectedCueIds_, cueId)
           ELSE Append(selectedCueIds_, cueId))

SelectRange(startCueId, endCueId) ==
    LET a == findCueIndex(cues_, startCueId)
        b == findCueIndex(cues_, endCueId)
        lo == IF a > b THEN b ELSE a
        hi == IF a > b THEN a ELSE b
    IN  IF a < 0 \/ b < 0
        THEN /\ Called([op |-> "selectRange"])
             /\ UNCHANGED <<cue, cues_, selectedCueIds_, standByCueId_, activeCues_,
                            isPaused_, hasUnsavedChanges_, groupExpansionState_>>
        ELSE Select("selectRange", SubSeq(cues_, lo + 1, hi + 1))

\* ---- moveCues

\* the (cue, index) pairs moveCues collects, in the order the ids are passed
RECURSIVE cuesToMove(_, _)
cuesToMove(list, cueIds) ==
    IF cueIds = <<>> THEN <<>>
    ELSE LET index == findCueIndex(list, Head(cueIds))
         IN  (IF index >= 0 THEN <<<<Head(cueIds), index>>>> ELSE <<>>)
                \o cuesToMove(list, Tail(cueIds))

\* std::sort by index, descending
RECURSIVE sortDescending(_)
sortDescending(pairs) ==
    IF pairs = <<>> THEN <<>>
    ELSE LET k == CHOOSE k \in 1..Len(pairs) :
                    \A m \in 1..Len(pairs) : pairs[m][2] <= pairs[k][2]
         IN  <<pairs[k]>> \o sortDescending(removeAt(pairs, k - 1))

\* the first loop: every pair is removed from the list at its index
RECURSIVE removePairs(_, _)
removePairs(list, pairs) ==
    IF pairs = <<>> THEN list
    ELSE removePairs(removeAt(list, Head(pairs)[2]), Tail(pairs))

\* movedCues: prepend keeps the cues in list order (movedCues_M appends)
RECURSIVE movedCues_M(_)
movedCues_M(pairs) ==
    IF pairs = <<>> THEN <<>>
    ELSE <<Head(pairs)[1]>> \o movedCues_M(Tail(pairs))

RECURSIVE movedCues(_)
movedCues(pairs) ==
    IF pairs = <<>> THEN <<>>
    ELSE movedCues(Tail(pairs)) \o <<Head(pairs)[1]>>

adjustedIndex(pairs, newIndex) ==
    newIndex - Cardinality({k \in 1..Len(pairs) : pairs[k][2] < newIndex})

\* the last loop: cues_.insert(adjustedIndex + i, movedCues[i])
RECURSIVE insertEach(_, _, _)
insertEach(list, at, moved) ==
    IF moved = <<>> THEN list
    ELSE insertEach(insert(list, at, Head(moved)), at + 1, Tail(moved))

\* (moveCues_M goes on with nothing to move)
moveCues_M(list, cueIds, newIndex) ==
    LET pairs == sortDescending(cuesToMove(list, cueIds))
    IN  IF cueIds = <<>> \/ newIndex < 0 \/ newIndex > Len(list)
        THEN [ok |-> FALSE, list |-> list]
        ELSE [ok |-> TRUE,
              list |-> insertEach(removePairs(list, pairs),
                                  adjustedIndex(pairs, newIndex), movedCues(pairs))]

moveCues(list, cueIds, newIndex) ==
    LET pairs == sortDescending(cuesToMove(list, cueIds))
    IN  IF cueIds = <<>> \/ newIndex < 0 \/ newIndex > Len(list) \/ pairs = <<>>
        THEN [ok |-> FALSE, list |-> list]
        ELSE [ok |-> TRUE,
              list |-> insertEach(removePairs(list, pairs),
                                  adjustedIndex(pairs, newIndex), movedCues(pairs))]

MoveCues(cueIds, newIndex) ==
    LET r == moveCues(cues_, cueIds, newIndex)
    IN  /\ cues_' = r.list
        /\ hasUnsavedChanges_' = (hasUnsavedChanges_ \/ r.ok)
        /\ Called([op |-> "moveCues", ok |-> r.ok, ids |-> cueIds,
                         idx |-> newIndex, before |-> cues_,
                         lockedEmits |-> emittedLocked(moveCuesTrace(
                             r.ok, Len(cuesToMove(cues_, cueIds)),
                             hasUnsavedChanges_))])
        /\ UNCHANGED <<cue, selectedCueIds_, standByCueId_, activeCues_, isPaused_,
                       groupExpansionState_>>

\* ---- groups

\* GroupCue::addChildCue: the cue becomes the last child of the group
addChildCue(children, cueId) == Append(children, cueId)

\* the loop of createGroupFromCues that takes the cues out of the list: g
\* carries cues_, the children given to the group so far (addChildCue
\* appends) and firstIndex (extractCues_M leaves the cues in the list)
RECURSIVE extractCues_M(_, _)
extractCues_M(g, cuesToGroup) ==
    IF cuesToGroup = <<>> THEN g
    ELSE LET index == findCueIndex(g.list, Head(cuesToGroup))
         IN  extractCues_M(
                IF index < 0 THEN g
                ELSE [list |-> g.list,
                      children |-> addChildCue(g.children, Head(cuesToGroup)),
                      firstIndex |-> g.firstIndex],
                Tail(cuesToGroup))

RECURSIVE extractCues(_, _)
extractCues(g, cuesToGroup) ==
    IF cuesToGroup = <<>> THEN g
    ELSE LET index == findCueIndex(g.list, Head(cuesToGroup))
         IN  extractCues(
                IF index < 0 THEN g
                ELSE [list |-> removeAt(g.list, index),
                      children |-> addChildCue(g.children, Head(cuesToGroup)),
                      firstIndex |-> IF index < g.firstIndex THEN g.firstIndex - 1
                                     ELSE g.firstIndex],
                Tail(cuesToGroup))

\* CueManager::createGroupFromCues on list: the list without the grouped
\* cues, the children of the group and the index the group is inserted at
\* (createGroupFromCues_M inserts the group at the head of the list)
createGroupFromCues_M(list, cueIds) ==
    LET cuesToGroup == validIds(list, cueIds)
        g == extractCues([list |-> list, children |-> <<>>, firstIndex |-> 0],
                         cuesToGroup)
    IN  IF cuesToGroup = <<>>
        THEN [ok |-> FALSE, list |-> list, children |-> <<>>, at |-> -1]
        ELSE [ok |-> TRUE, list |-> g.list, children |-> g.children, at |-> 0]

createGroupFromCues(list, cueIds) ==
    LET cuesToGroup == validIds(list, cueIds)
        indices == {findCueIndex(list, cuesToGroup[k]) : k \in 1..Len(cuesToGroup)}
        firstIndex == IF indices = {} THEN -1
                      ELSE CHOOSE x \in indices : \A y \in indices : x <= y
        g == extractCues([list |-> list, children |-> <<>>, firstIndex |-> firstIndex],
                         cuesToGroup)
    IN  IF cuesToGroup = <<>> \/ firstIndex < 0
        THEN [ok |-> FALSE, list |-> list, children |-> <<>>, at |-> -1]
        ELSE [ok |-> TRUE, list |-> g.list, children |-> g.children, at |-> g.firstIndex]

CreateGroupFromCues(cueIds) ==
    LET r == createGroupFromCues(cues_, cueIds)
        id == FreshId(cue)
        group == [NewCue("Group") EXCEPT !.number = getNextCueNumber(cue, cues_),
                                         !.children = r.children,
                                         !.connected = TRUE]
    IN  IF cueIds = <<>> \/ ~r.ok
        THEN /\ Called([op |-> "createGroupFromCues", ok |-> FALSE, id |-> NoId,
                              ids |-> cueIds, before |-> cues_,
                              relock |-> cueIds # <<>>])
             /\ UNCHANGED <<cue, cues_, selectedCueIds_, standByCueId_, activeCues_,
                            isPaused_, hasUnsavedChanges_, groupExpansionState_>>
        ELSE /\ Cardinality({i \in Ids : cue[i].life # "unborn" /\ cue[i].type = "Group"})
                    < MaxGroups
             /\ \E i \in Ids : cue[i].life = "unborn"
             /\ cue' = [cue EXCEPT ![id] = group]
             /\ cues_' = insert(r.list, r.at, id)
             /\ groupExpansionState_' =
                   [i \in DOMAIN groupExpansionState_ \cup {id} |->
                        IF i = id THEN TRUE ELSE groupExpansionState_[i]]
             /\ hasUnsavedChanges_' = TRUE
             /\ Called([op |-> "createGroupFromCues", ok |-> TRUE, id |-> id,
                              ids |-> cueIds, before |-> cues_, relock |-> TRUE])
             /\ UNCHANGED <<selectedCueIds_, standByCueId_, activeCues_, isPaused_>>

\* the list ungroupCues leaves: the group out, its children in at its index
\* (ungroupCues_M puts them at the end of the list)
ungroupCues_M(cs, list, groupId) ==
    LET groupIndex == findCueIndex(list, groupId)
    IN  IF groupIndex < 0 \/ cs[groupId].type # "Group"
        THEN [ok |-> FALSE, list |-> list]
        ELSE [ok |-> TRUE, list |-> removeAt(list, groupIndex) \o cs[groupId].children]

ungroupCues(cs, list, groupId) ==
    LET groupIndex == findCueIndex(list, groupId)
    IN  IF groupIndex < 0 \/ cs[groupId].type # "Group"
        THEN [ok |-> FALSE, list |-> list]
        ELSE [ok |-> TRUE,
              list |-> insertEach(removeAt(list, groupIndex), groupIndex,
                                  cs[groupId].children)]

UngroupCues(groupId) ==
    LET r == ungroupCues(cue, cues_, groupId)
    IN  /\ cues_' = r.list
        /\ cue' = IF r.ok THEN [cue EXCEPT ![groupId] = Deleted(cue[groupId])] ELSE cue
        /\ groupExpansionState_' =
              IF r.ok THEN [i \in DOMAIN groupExpansionState_ \ {groupId} |->
                                groupExpansionState_[i]]
              ELSE groupExpansionState_
        /\ hasUnsavedChanges_' = (hasUnsavedChanges_ \/ r.ok)
        /\ Called([op |-> "ungroupCues", ok |-> r.ok, id |-> groupId,
                         prev |-> IF last.op = "createGroupFromCues" THEN last
                                  ELSE Other])
        /\ UNCHANGED <<selectedCueIds_, standByCueId_, activeCues_, isPaused_>>

\* ---- the flattened view

\* CueManager::isGroupExpanded: groupExpansionState_.value(groupId, true)
isGroupExpanded(expansion, groupId) ==
    IF groupId \in DOMAIN expansion THEN expansion[groupId] ELSE TRUE

\* CueManager::getFlattenedCues (getFlattenedCues_M appends the children of
\* every group)
RECURSIVE getFlattenedCues_M(_, _, _)
getFlattenedCues_M(cs, list, expansion) ==
    IF list = <<>> THEN <<>>
    ELSE <<Head(list)>>
            \o (IF cs[Head(list)].type = "Group"
                THEN cs[Head(list)].children ELSE <<>>)
            \o getFlattenedCues_M(cs, Tail(list), expansion)

RECURSIVE getFlattenedCues(_, _, _)
getFlattenedCues(cs, list, expansion) ==
    IF list = <<>> THEN <<>>
    ELSE <<Head(list)>>
            \o (IF cs[Head(list)].type = "Group" /\ isGroupExpanded(expansion, Head(list))
                THEN cs[Head(list)].children ELSE <<>>)
            \o getFlattenedCues(cs, Tail(list), expansion)

GetFlattenedCues ==
    /\ Called([op |-> "getFlattenedCues",
                     out |-> getFlattenedCues(cue, cues_, groupExpansionState_)])
    /\ UNCHANGED <<cue, cues_, selectedCueIds_, standByCueId_, activeCues_, isPaused_,
                   hasUnsavedChanges_, groupExpansionState_>>

\* CueManager::toggleGroupExpansion
ToggleGroupExpansion(groupId) ==
    /\ groupExpansionState_' =
          [i \in DOMAIN groupExpansionState_ \cup {groupId} |->
               IF i = groupId THEN ~isGroupExpanded(groupExpansionState_, groupId)
               ELSE groupExpansionState_[i]]
    /\ Called([op |-> "toggleGroupExpansion"])
    /\ UNCHANGED <<cue, cues_, selectedCueIds_, standByCueId_, activeCues_, isPaused_,
                   hasUnsavedChanges_>>

\* ---- getNextCueNumber called by itself

GetNextCueNumber ==
    /\ Called([op |-> "getNextCueNumber", out |-> getNextCueNumber(cue, cues_)])
    /\ UNCHANGED <<cue, cues_, selectedCueIds_, standByCueId_, activeCues_, isPaused_,
                   hasUnsavedChanges_, groupExpansionState_>>

\* ---- resequenceCues

\* a double whose value is the fraction num / den (den > 0): their sum
addFraction(a, b) == [num |-> a.num * b.den + b.num * a.den, den |-> a.den * b.den]

\* the loop of resequenceCues over the cues of list, in order
RECURSIVE resequenceCues(_, _, _, _)
resequenceCues(cs, list, currentNumber, increment) ==
    IF list = <<>> THEN cs
    ELSE resequenceCues(
            [cs EXCEPT ![Head(list)].number =
                           numberF0(currentNumber.num, currentNumber.den)],
            Tail(list), addFraction(currentNumber, increment), increment)

\* ok: startNumber is a number; start: the number the loop starts with
ResequenceCues(startNumber, increment) ==
    LET n == toDouble(startNumber)
        currentNumber == IF n.ok THEN [num |-> n.num, den |-> n.den]
                         ELSE [num |-> 1, den |-> 1]
    IN  /\ cue' = resequenceCues(cue, cues_, currentNumber, increment)
        /\ hasUnsavedChanges_' = TRUE
        /\ Called([op |-> "resequenceCues", ok |-> n.ok, start |-> currentNumber,
                         increment |-> increment])
        /\ UNCHANGED <<cues_, selectedCueIds_, standByCueId_, activeCues_, isPaused_,
                       groupExpansionState_>>

\* ---- playhead and transport

\* the cue objects after cue->stop() was called on every cue of S
stopEach(cs, S) ==
    [i \in Ids |-> IF i \in S /\ cs[i].life = "live" THEN stop(cs[i]) ELSE cs[i]]

\* the cue objects after cue->pause() was called on every cue of S
pauseEach(cs, S) ==
    [i \in Ids |-> IF i \in S /\ cs[i].life = "live" THEN pause(cs[i]) ELSE cs[i]]

\* the cue objects after cue->resume() was called on every cue of S
resumeEach(cs, S) ==
    [i \in Ids |-> IF i \in S /\ cs[i].life = "live" THEN resume(cs[i]) ELSE cs[i]]

SetStandByCue(cueId) ==
    /\ standByCueId_' = cueId
    /\ Called([op |-> "setStandByCue"])
    /\ UNCHANGED <<cue, cues_, selectedCueIds_, activeCues_, isPaused_,
                   hasUnsavedChanges_, groupExpansionState_>>

\* CueManager::advanceStandBy (advanceStandBy_M searches from the list start)
advanceStandBy_M(cs, list, standBy) ==
    LET nextCueId == findNextExecutableCue(cs, list, NoId)
    IN  IF nextCueId # NoId THEN nextCueId ELSE standBy

advanceStandBy(cs, list, standBy) ==
    LET nextCueId == findNextExecutableCue(cs, list, standBy)
    IN  IF nextCueId # NoId THEN nextCueId ELSE standBy

\* from: the standby the call found
AdvanceStandBy ==
    /\ standByCueId_' = advanceStandBy(cue, cues_, standByCueId_)
    /\ Called([op |-> "advanceStandBy", from |-> standByCueId_,
                     unguarded |-> unguarded(advanceStandByAccess(
                         findNextExecutableCue(cue, cues_, standByCueId_) # NoId,
                         advanceStandBy(cue, cues_, standByCueId_) # standByCueId_))])
    /\ UNCHANGED <<cue, cues_, selectedCueIds_, activeCues_, isPaused_,
                   hasUnsavedChanges_, groupExpansionState_>>

\* CueManager::go, the two early returns: no standby cue, or one that cannot
\* execute (goRefused_M has the first only)
goRefused_M(cs, list, standBy) == getCue(list, standBy) = NoId

goRefused(cs, list, standBy) ==
    getCue(list, standBy) = NoId \/ ~canExecute(cs[getCue(list, standBy)])

\* CueManager::go: the active set after the trigger left the standby cue as
\* d (goActive_M never appends)
goActive_M(active, standbyCue, d) == active

goActive(active, standbyCue, d) ==
    IF isExecuting(d) THEN Append(active, standbyCue) ELSE active

\* id: the standby the call found; started: cueExecutionStarted was emitted
Go ==
    LET standbyCue == getCue(cues_, standByCueId_)
        d == trigger(cue[standbyCue])
        cs == [cue EXCEPT ![standbyCue] = d]
    IN  IF goRefused(cue, cues_, standByCueId_)
        THEN /\ Called([op |-> "go", id |-> standByCueId_, started |-> FALSE])
             /\ UNCHANGED <<cue, cues_, selectedCueIds_, standByCueId_, activeCues_,
                            isPaused_, hasUnsavedChanges_, groupExpansionState_>>
        ELSE /\ cue[standbyCue].nTrigger < MaxRuns
             /\ cue' = cs
             /\ activeCues_' = goActive(activeCues_, standbyCue, d)
             /\ standByCueId_' =
                   IF d.continueMode THEN advanceStandBy(cs, cues_, standByCueId_)
                   ELSE standByCueId_
             /\ hasUnsavedChanges_' = (hasUnsavedChanges_ \/ anyCueUpdated(cue, cs))
             /\ Called([op |-> "go", id |-> standByCueId_,
                               started |-> goActive(activeCues_, standbyCue, d) # activeCues_])
             /\ UNCHANGED <<cues_, selectedCueIds_, isPaused_, groupExpansionState_>>

\* What a transport call that leaves the cue objects as cs, the active set
\* as active and the pause flag as paused does to the manager.  hit: the
\* cues it acted on; stray: those of them that were not in the active set;
\* wasPaused: the pause flag it found.
Transport(op, cs, active, paused, hit) ==
    /\ cue' = cs
    /\ activeCues_' = active
    /\ isPaused_' = paused
    /\ hasUnsavedChanges_' = (hasUnsavedChanges_ \/ anyCueUpdated(cue, cs))
    /\ Called([op |-> op, hit |-> hit, stray |-> hit \ Range(activeCues_),
                      wasPaused |-> isPaused_])
    /\ UNCHANGED <<cues_, selectedCueIds_, standByCueId_, groupExpansionState_>>

\* CueManager::stop: the cues it stops (stopTargets_M: those still executing)
stopTargets_M(cs, active) == {i \in Range(active) : isExecuting(cs[i])}

stopTargets(cs, active) == Range(active)

Stop ==
    Transport("stop", stopEach(cue, stopTargets(cue, activeCues_)), <<>>, FALSE,
              stopTargets(cue, activeCues_))

\* CueManager::pause: the cues it pauses (pauseTargets_M: every active cue)
pauseTargets_M(cs, active) == Range(active)

pauseTargets(cs, active) == {i \in Range(active) : cs[i].status = "Playing"}

\* CueManager::resume: the cues it resumes
resumeTargets(cs, active) == {i \in Range(active) : cs[i].status = "Paused"}

Pause ==
    LET playing == pauseTargets(cue, activeCues_)
    IN  IF activeCues_ = <<>>
        THEN Transport("pause", cue, activeCues_, isPaused_, {})
        ELSE Transport("pause", pauseEach(cue, playing), activeCues_, TRUE, playing)

Resume ==
    LET paused == resumeTargets(cue, activeCues_)
    IN  IF ~isPaused_
        THEN Transport("resume", cue, activeCues_, isPaused_, {})
        ELSE Transport("resume", resumeEach(cue, paused), activeCues_, FALSE, paused)

\* CueManager::panic: the cues it stops (panicTargets_M: the active ones only)
panicTargets_M(cs, list, active) == {i \in Range(active) : isExecuting(cs[i])}

panicTargets(cs, list, active) == {i \in Range(list) : isExecuting(cs[i])}

Panic ==
    LET executing == panicTargets(cue, cues_, activeCues_)
    IN  Transport("panic", stopEach(cue, executing), <<>>, FALSE, executing)

\* executionTimer_ times out (every EXECUTION_TIMER_INTERVAL ms)
\* (stillExecuting_M keeps a paused cue)
RECURSIVE stillExecuting_M(_, _)
stillExecuting_M(cs, active) ==
    IF active = <<>> THEN <<>>
    ELSE IF ~(isExecuting(cs[Head(active)]) \/ cs[Head(active)].status = "Paused")
         THEN stillExecuting_M(cs, Tail(active))
    ELSE <<Head(active)>> \o stillExecuting_M(cs, Tail(active))

RECURSIVE stillExecuting(_, _)
stillExecuting(cs, active) ==
    IF active = <<>> THEN <<>>
    ELSE IF ~isExecuting(cs[Head(active)]) THEN stillExecuting(cs, Tail(active))
    ELSE <<Head(active)>> \o stillExecuting(cs, Tail(active))

\* CueManager::processCueExecution (ProcessCueExecution_M removes nothing)
ProcessCueExecution_M ==
    Transport("processCueExecution", cue, activeCues_, isPaused_, {})

ProcessCueExecution ==
    Transport("processCueExecution", cue, stillExecuting(cue, activeCues_), isPaused_,
              Range(activeCues_) \ Range(stillExecuting(cue, activeCues_)))

\* CueManager::CueManager: no cue, nothing selected, no standby
InitManager ==
    /\ cues_ = <<>>
    /\ selectedCueIds_ = <<>>
    /\ standByCueId_ = NoId
    /\ activeCues_ = <<>>
    /\ isPaused_ = FALSE
    /\ hasUnsavedChanges_ = FALSE
    /\ groupExpansionState_ = [i \in {} |-> TRUE]
    /\ last = NoCall
    /\ threads = [t \in Threads |-> Idle]

\* --------------------------------------- specification: one cue by itself

\* A cue constructed on its own (Cue::Cue), driven through its public
\* interface, its timers and the backend's completion signal.
InitCue ==
    /\ InitManager
    /\ cue = [i \in Ids |-> IF i = 1 THEN NewCue("Audio") ELSE NoCue]

NextCue ==
    \E i \in Ids :
        \/ Trigger(i)
        \/ PreWaitTimeout(i)
        \/ PostWaitTimeout(i)
        \/ ExecutionCompleted(i)
        \/ PositionUpdate(i)
        \/ StopCue(i)
        \/ PauseCue(i)
        \/ ResumeCue(i)
        \/ ResetCue(i)
        \/ SetStatus(i)
        \/ SetPreWait(i)
        \/ SetPostWait(i)
        \/ SetContinueMode(i)

SpecCue == InitCue /\ [][NextCue]_vars

\* ------------------- specification: one cue run from trigger to its end

\* The same cue with nobody stopping, pausing or resetting it: it is
\* configured and triggered, its single-shot timers time out and the backend
\* signals completion.  A started QTimer times out and the backend completes
\* what it plays, hence the weak fairness of these three steps.
NextRun ==
    \E i \in Ids :
        \/ Trigger(i)
        \/ PreWaitTimeout(i)
        \/ PostWaitTimeout(i)
        \/ ExecutionCompleted(i)
        \/ PositionUpdate(i)
        \/ SetPreWait(i)
        \/ SetPostWait(i)
        \/ SetContinueMode(i)

SpecRun ==
    /\ InitCue
    /\ [][NextRun]_vars
    /\ \A i \in Ids :
          /\ WF_vars(PreWaitTimeout(i))
          /\ WF_vars(PostWaitTimeout(i))
          /\ WF_vars(ExecutionCompleted(i))

\* -------------------------- specification: editing the list and selecting

\* id lists passed by a caller: any ids, present or not, repeated or not
IdLists(S, n) == UNION {[1..k -> S] : k \in 0..n}

\* the kinds of cue asked for: one createCueOfType makes, one it does not
SelTypes == {"Audio", "Video"}

InitEmpty ==
    /\ InitManager
    /\ cue = [i \in Ids |-> NoCue]

NextSel ==
    \/ \E type \in SelTypes, index \in -1..(Len(cues_) + 1) :
          AddCueAt(MaxCues, type, index, NoOptions)
    \/ \E cueIds \in IdLists(1..MaxCues, MaxArg) : RemoveCues(cueIds)
    \/ \E cueIds \in IdLists(1..MaxCues, MaxArg) : SelectCues(cueIds)
    \/ \E cueId \in 1..MaxCues : ToggleCueSelection(cueId)
    \/ \E a, b \in 1..MaxCues : SelectRange(a, b)
    \/ SelectAll
    \/ ClearSelection

SpecSel == InitEmpty /\ [][NextSel]_vars

\* ------------------------------------ specification: running the cue list

\* The manager from construction: cues are appended (addCue) and removed, the
\* playhead is set, the transport is used, the execution timer fires, and a
\* cue can also be triggered directly.  A cue is configured (pre-wait,
\* continue mode) before it is first fired.
Unfired(i) == cue[i].nTrigger = 0

NextMgr ==
    \/ \E type \in SelTypes :
          AddCueAt(MaxPlay, type, Len(cues_), NoOptions)
    \/ \E cueIds \in IdLists(1..MaxPlay, MaxArg) : RemoveCues(cueIds)
    \/ \E cueId \in 0..MaxPlay : SetStandByCue(cueId)
    \/ Go
    \/ Stop
    \/ Pause
    \/ Resume
    \/ Panic
    \/ ProcessCueExecution
    \/ \E i \in Ids :
          \/ Trigger(i)
          \/ PreWaitTimeout(i)
          \/ ExecutionCompleted(i)
          \/ Unfired(i) /\ SetPreWait(i)
          \/ Unfired(i) /\ SetContinueMode(i)

SpecMgr == InitEmpty /\ [][NextMgr]_vars

\* ----------------------------- specification: regrouping and reordering

\* Cues are appended, moved, grouped and ungrouped.  The ids passed are any
\* ids, present or not; moveCues is given ids without repetition.
EditIds == 1..(MaxList + MaxGroups)

Distinct(s) == \A j, k \in 1..Len(s) : j # k => s[j] # s[k]

NextEdit ==
    \/ AddCueAt(MaxList, "Audio", Len(cues_), NoOptions)
    \/ \E cueIds \in IdLists(EditIds, MaxArg) : CreateGroupFromCues(cueIds)
    \/ \E groupId \in EditIds : UngroupCues(groupId)
    \/ \E cueIds \in IdLists(EditIds, MaxArg), newIndex \in -1..(Len(cues_) + 1) :
          Distinct(cueIds) /\ MoveCues(cueIds, newIndex)

SpecEdit == InitEmpty /\ [][NextEdit]_vars

\* ------------------------------------------ specification: numbering cues

\* Cues are appended with a number given in the options or with the next
\* number, and the next number is asked for.
NumberPool ==
    { <<"2">>, <<"1", "0">>, <<"a", "b", "c">>, <<"4", ".", "5">>,
      <<"2", ".", "4">>, <<"-", "3">> }

NextNum ==
    \/ AddCueAt(MaxNums, "Audio", Len(cues_), NoOptions)
    \/ \E number \in NumberPool :
          AddCueAt(MaxNums, "Audio", Len(cues_), [has |-> TRUE, number |-> number])
    \/ GetNextCueNumber

SpecNum == InitEmpty /\ [][NextNum]_vars

\* ------------------------------------------------------- serialization

\* The fields of a Cue that the cue state machine above does not need, as
\* Cue::Cue sets them at time now (QDateTime::currentDateTime(), in ms).  A
\* QColor is its rgb name and its alpha; lastExecutedAt is the value of
\* lastExecutedTime_ when lastExecutedTime (it is valid) holds;
\* customProperties maps each key to a QVariant, of kind "none" for a key
\* that is not in the map; nSet counts the setter calls made on the cue.
PropertyKeys == {"k"}

NoVariant == [t |-> "none", v |-> ""]

FullCue(id, now) ==
    NewCue("Audio") @@
    [ id |-> id, name |-> "Untitled Cue", armed |-> FALSE, flagged |-> FALSE,
      color |-> [rgb |-> "#ffffff", alpha |-> 255], notes |-> "",
      duration |-> 5000, targetId |-> "", createdTime |-> now,
      modifiedTime |-> now, lastExecutedAt |-> 0,
      customProperties |-> [k \in PropertyKeys |-> NoVariant], nSet |-> 0 ]

\* setNumber, setName, setStatus, setArmed, setFlagged, setContinueMode,
\* setColor, setNotes, setTargetId: assign when the value differs
setField(c, f, v) == IF c[f] # v THEN [c EXCEPT ![f] = v] ELSE c

setDuration(c, v) ==
    IF Abs(c.duration - v) > 1 THEN [c EXCEPT !.duration = qMax(0, v)] ELSE c

setCustomProperty(c, key, value) ==
    IF c.customProperties[key] # value
    THEN [c EXCEPT !.customProperties[key] = value] ELSE c

\* static_cast<int>(status_) and back
statusInt ==
    [Loaded |-> 0, Playing |-> 1, Paused |-> 2, Stopped |-> 3, Loading |-> 4,
     Broken |-> 5, Armed |-> 6]

statusOfInt(n) == CHOOSE st \in CueStatus : statusInt[st] = n

\* QColor::name(): "#rrggbb", without the alpha; QColor(name): opaque
colorName(color) == color.rgb

colorOfName(name) == [rgb |-> name, alpha |-> 255]

\* QDateTime::toString(Qt::ISODate): to the second; QDateTime::fromString
toISODate(ms) == ms \div 1000

fromISODate(seconds) == seconds * 1000

\* QJsonValue::fromVariant and QJsonValue::toVariant: a JSON number is a
\* double
fromVariant(variant) ==
    [j |-> IF variant.t \in {"int", "double"} THEN "number" ELSE variant.t,
     v |-> variant.v]

toVariant(value) ==
    [t |-> IF value.j = "number" THEN "double" ELSE value.j, v |-> value.v]

\* Cue::toJson.  A key that is written only sometimes carries has.
toJson(c) ==
    [ id |-> c.id, type |-> c.type, number |-> c.number, name |-> c.name,
      status |-> statusInt[c.status], armed |-> c.armed, flagged |-> c.flagged,
      continueMode |-> c.continueMode, color |-> colorName(c.color),
      notes |-> c.notes, duration |-> c.duration, preWait |-> c.preWait,
      postWait |-> c.postWait,
      targetId |-> [has |-> c.targetId # "", v |-> c.targetId],
      createdTime |-> toISODate(c.createdTime),
      modifiedTime |-> toISODate(c.modifiedTime),
      lastExecutedTime |-> [has |-> c.lastExecutedTime,
                            v |-> toISODate(c.lastExecutedAt)],
      customProperties |->
          [has |-> \E k \in PropertyKeys : c.customProperties[k] # NoVariant,
           v |-> [k \in PropertyKeys |->
                    IF c.customProperties[k] = NoVariant THEN NoVariant
                    ELSE fromVariant(c.customProperties[k])]] ]

\* Cue::fromJson on cue c at time now, for a json that toJson wrote: the
\* setters in their order (each one that assigns calls markModified), then
\* the timestamps, then the custom properties.  "id" and "type" are not read.
fromJson(c, json, now) ==
    LET c1 == setField(c, "number", json.number)
        c2 == setField(c1, "name", json.name)
        c3 == setStatus(c2, statusOfInt(json.status))
        c4 == setField(c3, "armed", json.armed)
        c5 == setField(c4, "flagged", json.flagged)
        c6 == setContinueMode(c5, json.continueMode)
        c7 == setField(c6, "color", colorOfName(json.color))
        c8 == setField(c7, "notes", json.notes)
        c9 == setDuration(c8, json.duration)
        c10 == setPreWait(c9, json.preWait)
        c11 == setPostWait(c10, json.postWait)
        c12 == IF json.targetId.has THEN setField(c11, "targetId", json.targetId.v)
               ELSE c11
        c13 == IF c12 # c THEN [c12 EXCEPT !.modifiedTime = now] ELSE c12
        c14 == [c13 EXCEPT !.createdTime = fromISODate(json.createdTime),
                           !.modifiedTime = fromISODate(json.modifiedTime)]
        c15 == IF json.lastExecutedTime.has
               THEN [c14 EXCEPT !.lastExecutedTime = TRUE,
                                !.lastExecutedAt = fromISODate(json.lastExecutedTime.v)]
               ELSE c14
    IN  IF json.customProperties.has
        THEN [c15 EXCEPT !.customProperties =
                 [k \in PropertyKeys |->
                    IF json.customProperties.v[k] = NoVariant THEN NoVariant
                    ELSE toVariant(json.customProperties.v[k])]]
        ELSE c15

\* the clock when a call is made
Clock == {1000, 1500}

\* values passed to the setters (waits and durations in ms, none negative)
FieldInputs ==
    [ name |-> {"", "Intro"}, armed |-> {TRUE}, flagged |-> {TRUE},
      color |-> {[rgb |-> "#ff0000", alpha |-> 255], [rgb |-> "#ff0000", alpha |-> 128]},
      notes |-> {"check"}, targetId |-> {"t1"}, status |-> CueStatus ]

VariantInputs ==
    {[t |-> "string", v |-> "a"], [t |-> "int", v |-> "1"], [t |-> "bool", v |-> "true"]}

\* a setter call on cue 1 that leaves it as d: markModified when it assigned
JsonCall(d, op) ==
    /\ cue[1].nSet < MaxSets
    /\ \E now \in Clock :
          cue' = [cue EXCEPT ![1] =
                     [(IF d # cue[1] THEN [d EXCEPT !.modifiedTime = now] ELSE d)
                         EXCEPT !.nSet = @ + 1]]
    /\ Called([op |-> op])
    /\ UNCHANGED <<cues_, selectedCueIds_, standByCueId_, activeCues_, isPaused_,
                   hasUnsavedChanges_, groupExpansionState_>>

JsonSetField ==
    \E f \in DOMAIN FieldInputs : \E v \in FieldInputs[f] :
        JsonCall(setField(cue[1], f, v), "setField")

JsonSetTiming ==
    \/ \E v \in {5001, 8000} : JsonCall(setDuration(cue[1], v), "setDuration")
    \/ \E v \in {1, 1000} : JsonCall(setPreWait(cue[1], v), "setPreWait")
    \/ \E v \in {1000} : JsonCall(setPostWait(cue[1], v), "setPostWait")

JsonSetCustomProperty ==
    \E k \in PropertyKeys, value \in VariantInputs :
        JsonCall(setCustomProperty(cue[1], k, value), "setCustomProperty")

\* the cue finished an execution at time now (Cue::cleanupExecution)
JsonExecuted ==
    \E now \in Clock :
        JsonCall([cleanupExecution(cue[1]) EXCEPT !.lastExecutedAt = now],
                 "cleanupExecution")

\* cue 1 is written with toJson and read with fromJson into cue 2, a cue
\* constructed for it at time now
JsonRoundTrip ==
    /\ \E now \in Clock :
          cue' = [cue EXCEPT ![2] = fromJson(FullCue(2, now), toJson(cue[1]), now)]
    /\ Called([op |-> "fromJson"])
    /\ UNCHANGED <<cues_, selectedCueIds_, standByCueId_, activeCues_, isPaused_,
                   hasUnsavedChanges_, groupExpansionState_>>

InitJson ==
    /\ InitManager
    /\ \E now \in Clock :
          cue = [i \in Ids |-> IF i = 1 THEN FullCue(1, now) ELSE NoCue]

NextJson ==
    \/ JsonSetField
    \/ JsonSetTiming
    \/ JsonSetCustomProperty
    \/ JsonExecuted
    \/ JsonRoundTrip

SpecJson == InitJson /\ [][NextJson]_vars

\* --------------------------------------- specification: renumbering cues

\* Cues are appended with the next number or with a number of their own, and
\* the list is renumbered from a start number (one of them no number) by a
\* whole or a fractional increment.
StartNumbers == { <<"1">>, <<"5">>, <<"a", "b", "c">> }

Increments == { [num |-> 1, den |-> 1], [num |-> 1, den |-> 2], [num |-> 2, den |-> 1] }

NextSeq ==
    \/ AddCueAt(MaxNums, "Audio", Len(cues_), NoOptions)
    \/ \E number \in StartNumbers :
          AddCueAt(MaxNums, "Audio", Len(cues_), [has |-> TRUE, number |-> number])
    \/ \E startNumber \in StartNumbers, increment \in Increments :
          ResequenceCues(startNumber, increment)

SpecSeq == InitEmpty /\ [][NextSeq]_vars

\* ------------------------------ specification: groups and the selection

\* Cues are appended, grouped, ungrouped and removed one at a time
\* (removeCue), all cues are selected or none, a group is collapsed and
\* expanded, and the flattened view is asked for.
IsGroup(i) == Live(i) /\ cue[i].type = "Group"

NextGroup ==
    \/ AddCueAt(MaxList, "Audio", Len(cues_), NoOptions)
    \/ \E cueId \in EditIds : RemoveCues(<<cueId>>)
    \/ SelectAll
    \/ ClearSelection
    \/ \E cueIds \in IdLists(EditIds, MaxArg) :
          Distinct(cueIds) /\ CreateGroupFromCues(cueIds)
    \/ \E groupId \in EditIds : UngroupCues(groupId)
    \/ \E groupId \in EditIds : IsGroup(groupId) /\ ToggleGroupExpansion(groupId)
    \/ GetFlattenedCues

SpecGroup == InitEmpty /\ [][NextGroup]_vars

\* -------------------------------- specification: advancing the standby

\* Cues are appended and put in any status, the standby is set to any id,
\* in the list or not, and advanced.
NextStandBy ==
    \/ AddCueAt(MaxStand, "Audio", Len(cues_), NoOptions)
    \/ \E cueId \in 0..MaxStand : SetStandByCue(cueId)
    \/ AdvanceStandBy
    \/ \E i \in Ids : SetStatus(i)

SpecStandBy == InitEmpty /\ [][NextStandBy]_vars

\* ------------------------------------- specification: the transport alone

\* Cues are appended and configured before they are first fired; the standby
\* is set, the transport is used, the timers and the backend fire, the
\* execution timer ticks, and a cue is also paused through its own
\* interface (Cue::pauseCue).
NextPlay ==
    \/ AddCueAt(MaxPlay, "Audio", Len(cues_), NoOptions)
    \/ \E cueId \in 0..MaxPlay : SetStandByCue(cueId)
    \/ Go
    \/ Stop
    \/ Pause
    \/ Resume
    \/ ProcessCueExecution
    \/ \E i \in Ids :
          \/ PreWaitTimeout(i)
          \/ ExecutionCompleted(i)
          \/ PauseCue(i)
          \/ Unfired(i) /\ SetPreWait(i)
          \/ Unfired(i) /\ SetContinueMode(i)

SpecPlay == InitEmpty /\ [][NextPlay]_vars

\* ------------------------------------- specification: a show being edited

\* CueManager::clearWorkspace: stop(), then everything is cleared and the
\* cues of the list are deleted (qDeleteAll), with the cues their groups own
ClearWorkspace ==
    LET stopped == stopEach(cue, stopTargets(cue, activeCues_))
        gone == Range(cues_) \cup UNION {Descendants(cue, g) : g \in Range(cues_)}
    IN  /\ cue' = [i \in Ids |-> IF i \in gone THEN Deleted(stopped[i]) ELSE stopped[i]]
        /\ cues_' = <<>>
        /\ selectedCueIds_' = <<>>
        /\ standByCueId_' = NoId
        /\ activeCues_' = <<>>
        /\ isPaused_' = FALSE
        /\ groupExpansionState_' = [i \in {} |-> TRUE]
        /\ hasUnsavedChanges_' = FALSE
        /\ Called([op |-> "clearWorkspace"])

\* Cues are appended, grouped, ungrouped and removed and the workspace is
\* cleared while the standby is set, go() and panic() are called, the backend
\* completes cues and the execution timer ticks.
ShowIds == 1..(MaxPlay + MaxGroups)

NextShow ==
    \/ AddCueAt(MaxPlay, "Audio", Len(cues_), NoOptions)
    \/ \E cueId \in ShowIds : RemoveCues(<<cueId>>)
    \/ \E cueId \in {NoId} \cup ShowIds : SetStandByCue(cueId)
    \/ Go
    \/ Panic
    \/ ProcessCueExecution
    \/ \E cueIds \in IdLists(ShowIds, MaxArg) :
          Distinct(cueIds) /\ CreateGroupFromCues(cueIds)
    \/ \E groupId \in ShowIds : UngroupCues(groupId)
    \/ ClearWorkspace
    \/ \E i \in Ids : ExecutionCompleted(i)

SpecShow == InitEmpty /\ [][NextShow]_vars

\* --------------------------------- specification: moving with repeated ids

\* moveCues(ids, idx) on list stays inside the list: each removeAt finds
\* its index in the list as the removals before it left it, and each insert
\* an index from 0 to the size of the list
InsideList(list, ids, idx) ==
    LET pairs == sortDescending(cuesToMove(list, ids))
    IN  /\ \A k \in 1..Len(pairs) : pairs[k][2] < Len(list) - (k - 1)
        /\ adjustedIndex(pairs, idx) >= 0
        /\ adjustedIndex(pairs, idx) <= Len(list) - Len(pairs)

\* Cues are appended and moved; an id may be passed more than once.  A call
\* that would take QList::removeAt or QList::insert outside the list (Qt
\* asserts there, and the behaviour is undefined without assertions) is not
\* made.
NextMove ==
    \/ AddCueAt(MaxList, "Audio", Len(cues_), NoOptions)
    \/ \E cueIds \in IdLists(1..MaxList, MaxArg), newIndex \in -1..(Len(cues_) + 1) :
          InsideList(cues_, cueIds, newIndex) /\ MoveCues(cueIds, newIndex)

SpecMove == InitEmpty /\ [][NextMove]_vars

\* ------------------------------- specification: the execution timer ticking

\* Cues are appended, the standby is set and go() is called; a running cue
\* completes or is stopped, paused, resumed or reset through its own
\* interface.  executionTimer_ is a repeating QTimer started in the
\* constructor, so a tick is always due: hence the weak fairness of
\* processCueExecution.
NextTick ==
    \/ AddCueAt(MaxPlay, "Audio", Len(cues_), NoOptions)
    \/ \E cueId \in 1..MaxPlay : SetStandByCue(cueId)
    \/ Go
    \/ ProcessCueExecution
    \/ \E i \in Ids :
          \/ ExecutionCompleted(i)
          \/ StopCue(i)
          \/ PauseCue(i)
          \/ ResumeCue(i)
          \/ ResetCue(i)

SpecTick == InitEmpty /\ [][NextTick]_vars /\ WF_vars(ProcessCueExecution)

\* ================================================================ claims

\* C1: canExecute() is true exactly in status Loaded or Armed, and a
\* trigger() made in any other status leaves the cue exactly as it was
\* (status, position, pending timers, and no call of the execution hook).
C1_TriggerOnlyWhenExecutable ==
    /\ \A i \in Ids :
          Live(i) => (canExecute(cue[i]) <=> cue[i].status \in {"Loaded", "Armed"})
    /\ (last.op = "trigger" /\ last.was.status \notin {"Loaded", "Armed"})
          => last.same

C1_Witness ==
    /\ last.op = "trigger"
    /\ last.was.status = "Paused"
    /\ last.was.postWaitTimer
    /\ cue[last.id].postWaitTimer

C3_WitnessLoading ==
    /\ last.op = "stop"
    /\ last.was.status = "Loading"
    /\ last.was.preWaitTimer

\* C4 (as claimed): a triggered cue that nobody stops or resets ends
\* finalized: once its execution has finished it is Stopped with
\* currentPosition 1.0 and lastExecutedTime set, the hook was called once and
\* executionFinished was emitted exactly once.
Finalized(i) ==
    /\ cue[i].status = "Stopped"
    /\ cue[i].currentPosition = 2000
    /\ cue[i].lastExecutedTime
    /\ cue[i].nExecute = 1
    /\ cue[i].nFinished = 1

C4_Claimed == \A i \in Ids : cue[i].nFinished > 0 => Finalized(i)

\* C6: after any sequence of adding, removing and selecting, every selected
\* id is the id of a cue of the list.
C6_SelectionWithinList == Range(selectedCueIds_) \subseteq Range(cues_)

C6_Witness ==
    /\ last.op = "removeCues"
    /\ last.ok
    /\ last.deselected # {}
    /\ selectedCueIds_ # <<>>

\* C2: panic() stops every cue of the list that is executing, whether or not
\* the active set holds it, and leaves the active set empty and the pause
\* flag false.
C2_PanicStopsEveryExecutingCue ==
    last.op = "panic"
        => /\ \A i \in Range(cues_) : ~isExecuting(cue[i])
           /\ \A i \in last.hit : cue[i].status = "Stopped"
           /\ activeCues_ = <<>>
           /\ ~isPaused_

C2_Witness ==
    /\ last.op = "panic"
    /\ last.stray # {}
    /\ last.hit # last.stray
    /\ last.wasPaused

\* C5: removeCues stops a cue that is executing before it takes it out of
\* the list, and a removed cue is neither in the list nor in the active set,
\* then or later.
C5_RemoveStopsExecutingCue ==
    /\ \A i \in Ids : cue[i].life = "deleted" => ~contains(activeCues_, i)
    /\ last.op = "removeCues"
          => /\ last.running = {}
             /\ \A i \in last.removed :
                   /\ cue[i].life = "deleted"
                   /\ ~contains(cues_, i)
                   /\ ~contains(activeCues_, i)

C5_Witness ==
    /\ last.op = "removeCues"
    /\ last.stopped \cap last.wasActive # {}
    /\ activeCues_ # <<>>

\* the cues of list s that are in S / not in S, in the order of s
Within(s, S) == SelectSeq(s, LAMBDA x : x \in S)

Without(s, S) == SelectSeq(s, LAMBDA x : x \notin S)

\* s without the later occurrences of an element
RECURSIVE Dedup(_)
Dedup(s) ==
    IF s = <<>> THEN <<>>
    ELSE LET front == Dedup(SubSeq(s, 1, Len(s) - 1))
         IN  IF contains(front, s[Len(s)]) THEN front ELSE Append(front, s[Len(s)])

\* list with the cues of seq block taken out and put back as one block that
\* starts at 0-based index at
Spliced(list, block, at) ==
    LET others == Without(list, Range(block))
    IN  SubSeq(others, 1, at) \o block \o SubSeq(others, at + 1, Len(others))

\* ungroupCues was called on the group that the call just before it made
RoundTrip ==
    /\ last.op = "ungroupCues"
    /\ last.ok
    /\ last.prev.op = "createGroupFromCues"
    /\ last.prev.ok
    /\ last.prev.id = last.id

\* the cues createGroupFromCues(ids) takes from list, in the order passed
Grouped(list, ids) == Dedup(Within(ids, Range(list)))

FirstIndex(list, S) ==
    CHOOSE x \in {findCueIndex(list, i) : i \in S} :
        \A y \in {findCueIndex(list, i) : i \in S} : x <= y

\* C7 (as amended): createGroupFromCues(ids) followed by ungroupCues on the
\* new group leaves the grouped cues as one block, in the order their ids
\* were passed, starting where the first of them was in the list, and every
\* other cue in its order; so the original order is restored exactly when
\* the ids name adjacent cues in list order.
C7_UngroupSplicesChildren ==
    RoundTrip =>
        LET before == last.prev.before
            kids == Grouped(before, last.prev.ids)
            first == FirstIndex(before, Range(kids))
        IN  /\ cues_ = Spliced(before, kids, first)
            /\ (cues_ = before) <=> (kids = SubSeq(before, first + 1, first + Len(kids)))

C7_Witness ==
    /\ RoundTrip
    /\ Len(Grouped(last.prev.before, last.prev.ids)) = 2
    /\ Len(last.prev.before) = 3
    /\ cues_ = last.prev.before

\* C7 (as claimed): the round trip restores the original order for any ids.
C7_Claimed == RoundTrip => cues_ = last.prev.before

\* C8 (as claimed): createGroupFromCues makes the cues children of the group
\* in their relative order in the list, whatever the order of the ids.
C8_Claimed ==
    (last.op = "createGroupFromCues" /\ last.ok)
        => LET kids == cue[last.id].children
           IN  \A j, k \in 1..Len(kids) :
                   j < k => findCueIndex(last.before, kids[j])
                                < findCueIndex(last.before, kids[k])

\* C9: moveCues(ids, newIndex) with distinct ids of cues of the list and
\* 0 <= newIndex <= length leaves the moved cues as one block in their
\* original relative order, starting at newIndex less the number of moved
\* cues that were before newIndex, and the other cues in their order; moving
\* one cue to the index it has changes nothing.
C9_MoveKeepsOrder ==
    (/\ last.op = "moveCues"
     /\ last.ids # <<>>
     /\ Distinct(last.ids)
     /\ Range(last.ids) \subseteq Range(last.before)
     /\ last.idx \in 0..Len(last.before))
        => LET before == last.before
               moved == Within(before, Range(last.ids))
               start == last.idx
                          - Cardinality({k \in 1..last.idx : before[k] \in Range(last.ids)})
           IN  /\ last.ok
               /\ cues_ = Spliced(before, moved, start)
               /\ (Len(last.ids) = 1 /\ findCueIndex(before, last.ids[1]) = last.idx)
                     => cues_ = before

C9_Witness ==
    /\ last.op = "moveCues"
    /\ last.ok
    /\ Len(last.before) = 3
    /\ last.ids = <<last.before[3], last.before[1]>>
    /\ last.idx = 2
    /\ cues_ # last.before

C9_WitnessSame ==
    /\ last.op = "moveCues"
    /\ last.ok
    /\ Len(last.ids) = 1
    /\ Len(last.before) = 3
    /\ findCueIndex(last.before, last.ids[1]) = last.idx

\* the numbers of the list that toDouble reads, as fractions
Parsed ==
    {toDouble(cue[cues_[k]].number) : k \in 1..Len(cues_)} \ {toDouble(<<>>)}

Largest(P) == CHOOSE p \in P : \A q \in P : q.num * p.den <= p.num * q.den

\* the integer nearest to num / den + 1 (a half goes up)
NextWhole(p) == (2 * (p.num + p.den) + p.den) \div (2 * p.den)

IntToString(n) == IF n < 0 THEN <<"-">> \o NatToString(-n) ELSE NatToString(n)

\* C10 (as amended): getNextCueNumber() returns, as an integer string, one
\* more than the largest of 0 and the numbers of the list that parse,
\* rounded to the nearest integer; numbers that do not parse are ignored;
\* it is "1" when no number parses or none is positive.
C10_NextNumberAboveZero ==
    last.op = "getNextCueNumber"
        => /\ last.out = NatToString(NextWhole(Largest(Parsed \cup {toDouble(<<"0">>)})))
           /\ (\A p \in Parsed : p.num <= 0) => last.out = <<"1">>

C10_Witness ==
    /\ last.op = "getNextCueNumber"
    /\ Len(cues_) = 4
    /\ cue[cues_[1]].number = <<"1">>
    /\ cue[cues_[2]].number = <<"2">>
    /\ cue[cues_[3]].number = <<"a", "b", "c">>
    /\ cue[cues_[4]].number = <<"4", ".", "5">>
    /\ last.out = <<"6">>

C10_WitnessNegative ==
    /\ last.op = "getNextCueNumber"
    /\ Parsed # {}
    /\ \A p \in Parsed : p.num < 0
    /\ last.out = <<"1">>

\* C10 (as claimed): the result is the largest number that parses plus one,
\* and "1" when none parses.
C10_Claimed ==
    last.op = "getNextCueNumber"
        => last.out = IF Parsed = {} THEN <<"1">>
                      ELSE IntToString(NextWhole(Largest(Parsed)))

\* the cues after the position of the cue from (all of them when from is no
\* cue of the list) that are Loaded or Armed, by 1-based position
CanRunAfterIn(cs, list, from) ==
    LET start == IF from \in Range(list) THEN findCueIndex(list, from) + 1 ELSE 0
    IN  {k \in (start + 1)..Len(list) : cs[list[k]].status \in {"Loaded", "Armed"}}

CanRunAfter(from) == CanRunAfterIn(cue, cues_, from)

Least(S) == CHOOSE k \in S : \A m \in S : k <= m

\* C11 (as amended): advanceStandBy() sets the standby to the first cue
\* after the position of the current standby (from the list start when
\* there is no standby or its id is not in the list) that can execute, and
\* leaves the standby as it is when there is no such cue.
C11_AdvanceKeepsStandByAtEnd ==
    last.op = "advanceStandBy"
        => standByCueId_ = IF CanRunAfter(last.from) = {} THEN last.from
                           ELSE cues_[Least(CanRunAfter(last.from))]

\* the standby skipped a cue that cannot execute
C11_Witness ==
    /\ last.op = "advanceStandBy"
    /\ last.from \in Range(cues_)
    /\ findCueIndex(cues_, standByCueId_) > findCueIndex(cues_, last.from) + 1

\* no cue after the standby can execute
C11_WitnessNone ==
    /\ last.op = "advanceStandBy"
    /\ last.from \in Range(cues_)
    /\ CanRunAfter(last.from) = {}
    /\ standByCueId_ = last.from

\* C11 (as claimed): ... and clears the standby when no such cue exists.
C11_Claimed ==
    (last.op = "advanceStandBy" /\ last.from \in Range(cues_))
        => standByCueId_ = IF CanRunAfter(last.from) = {} THEN NoId
                           ELSE cues_[Least(CanRunAfter(last.from))]

\* go() finds a standby cue of the list that is Loaded or Armed
GoAllowed ==
    /\ standByCueId_ \in Range(cues_)
    /\ cue[standByCueId_].status \in {"Loaded", "Armed"}

Executing(c) == c.status \in {"Playing", "Loading"}

\* C12: go() with a standby cue that can execute triggers that cue (and
\* touches no other), appends it to the active set and emits
\* cueExecutionStarted exactly when it is executing after the trigger, and
\* moves the standby as advanceStandBy does exactly when the cue's
\* continueMode is set; otherwise the standby stays.
C12_GoTriggersStandBy ==
    [][(last'.op = "go" /\ GoAllowed)
          => LET i == standByCueId_
             IN  /\ cue'[i].nTrigger = cue[i].nTrigger + 1
                 /\ cue'[i].status = IF cue[i].preWait > 0 THEN "Loading" ELSE "Playing"
                 /\ \A j \in Ids \ {i} : cue'[j] = cue[j]
                 /\ activeCues_' = IF Executing(cue'[i]) THEN Append(activeCues_, i)
                                    ELSE activeCues_
                 /\ last'.started = Executing(cue'[i])
                 /\ standByCueId_' =
                       IF cue[i].continueMode /\ CanRunAfterIn(cue', cues_, i) # {}
                       THEN cues_[Least(CanRunAfterIn(cue', cues_, i))]
                       ELSE i]_vars

\* go fired a cue in continue mode and the standby moved on
C12_Witness ==
    /\ last.op = "go"
    /\ last.started
    /\ cue[last.id].continueMode
    /\ standByCueId_ # last.id
    /\ last.id \in Range(activeCues_)

\* go fired a cue not in continue mode and the standby stayed
C12_WitnessStay ==
    /\ last.op = "go"
    /\ last.started
    /\ ~cue[last.id].continueMode
    /\ standByCueId_ = last.id
    /\ cue[last.id].status = "Loading"

\* C13: go() without a standby cue, or with one that cannot execute, changes
\* nothing: the list, every cue, the active set, the standby, the selection
\* and the pause flag stay, and cueExecutionStarted is not emitted.
C13_GoRefusedChangesNothing ==
    [][(last'.op = "go" /\ ~GoAllowed)
          => /\ UNCHANGED <<cue, cues_, activeCues_, standByCueId_, selectedCueIds_,
                            isPaused_, hasUnsavedChanges_>>
             /\ ~last'.started]_vars

\* go was called with a standby cue that is executing
C13_Witness ==
    /\ last.op = "go"
    /\ ~last.started
    /\ last.id \in Range(cues_)
    /\ cue[last.id].status = "Playing"
    /\ standByCueId_ = last.id

\* go was called without a standby although a cue could run
C13_WitnessNoStandBy ==
    /\ last.op = "go"
    /\ last.id = NoId
    /\ CanRunAfter(NoId) # {}
    /\ activeCues_ = <<>>

\* the cues of the active set that are in status s
ActiveIn(s) == {i \in Range(activeCues_) : cue[i].status = s}

\* the call moved exactly the cues of S from their status to status s
Moved(S, s) ==
    \A i \in Ids : cue'[i] = IF i \in S THEN [cue[i] EXCEPT !.status = s] ELSE cue[i]

\* C14 (as amended): pause() calls pause on exactly the cues of the active
\* set that are Playing; resume(), called while the manager is paused, calls
\* resume on exactly the cues of the active set that are Paused, and called
\* while the manager is not paused it calls nothing.  Neither touches a cue
\* in another status.
C14_PauseResumeExactly ==
    [][/\ last'.op = "pause"
            => /\ last'.hit = ActiveIn("Playing")
               /\ Moved(ActiveIn("Playing"), "Paused")
       /\ last'.op = "resume"
            => /\ last'.hit = IF isPaused_ THEN ActiveIn("Paused") ELSE {}
               /\ Moved(IF isPaused_ THEN ActiveIn("Paused") ELSE {}, "Playing")]_vars

\* pause() paused a cue and left an active cue that was not Playing alone
C14_Witness ==
    /\ last.op = "pause"
    /\ last.hit # {}
    /\ Range(activeCues_) \ last.hit # {}
    /\ \A i \in last.hit : cue[i].status = "Paused"

\* resume() resumed a cue and left an active cue that was not Paused alone
C14_WitnessResume ==
    /\ last.op = "resume"
    /\ last.wasPaused
    /\ last.hit # {}
    /\ Range(activeCues_) \ last.hit # {}
    /\ \A i \in last.hit : cue[i].status = "Playing"

\* C14 (as claimed): resume() calls resume on exactly the cues of the active
\* set that are Paused, pause() on exactly those that are Playing.
C14_Claimed ==
    [][/\ last'.op = "pause" => last'.hit = ActiveIn("Playing")
       /\ last'.op = "resume" => last'.hit = ActiveIn("Paused")]_vars

\* C15: the manager's stop() calls stop on every cue that is in the active
\* set when it is called (each one that is not Broken is Stopped afterwards,
\* with no delay pending) and leaves the active set empty.
C15_StopStopsActiveSet ==
    [][last'.op = "stop"
          => /\ last'.hit = Range(activeCues_)
             /\ activeCues_' = <<>>
             /\ \A i \in Range(activeCues_) :
                   cue[i].status # "Broken"
                      => /\ cue'[i].status = "Stopped"
                         /\ ~cue'[i].preWaitTimer
                         /\ ~cue'[i].postWaitTimer]_vars

\* stop() stopped two cues
C15_Witness ==
    /\ last.op = "stop"
    /\ Cardinality(last.hit) = 2
    /\ activeCues_ = <<>>
    /\ \A i \in last.hit : cue[i].status = "Stopped"

\* C18 (as claimed): reset(), in any status, leaves the cue Loaded at
\* currentPosition 0.0 with no pre-wait or post-wait delay pending, so that
\* neither delayed callback can run on it afterwards.
C18_Claimed ==
    last.op = "reset"
        => /\ cue[last.id].status = "Loaded"
           /\ cue[last.id].currentPosition = 0
           /\ ~cue[last.id].preWaitTimer
           /\ ~cue[last.id].postWaitTimer
           /\ ~ENABLED PreWaitTimeout(last.id)
           /\ ~ENABLED PostWaitTimeout(last.id)

\* C19: a trigger() on an executable cue calls the execution hook exactly
\* once: at once when preWait is 0, otherwise when the single-shot pre-wait
\* timer times out and not before, the cue being Loading as long as the
\* timer is pending; a trigger() during the wait changes nothing.
C19_HookOncePerTrigger ==
    /\ [](\A i \in Ids :
            /\ cue[i].nExecute = cue[i].nTrigger - (IF cue[i].preWaitTimer THEN 1 ELSE 0)
            /\ cue[i].preWaitTimer => cue[i].status = "Loading")
    /\ [](last.op = "trigger"
            => /\ last.was.status = "Loading" => last.same
               /\ (last.was.status \in {"Loaded", "Armed"} /\ cue[last.id].preWait > 0)
                    => cue[last.id].preWaitTimer /\ cue[last.id].status = "Loading"
               /\ (last.was.status \in {"Loaded", "Armed"} /\ cue[last.id].preWait <= 0)
                    => ~cue[last.id].preWaitTimer /\ cue[last.id].status = "Playing")
    /\ [][\A i \in Ids :
            cue'[i].nExecute # cue[i].nExecute
               => /\ cue'[i].nExecute = cue[i].nExecute + 1
                  /\ IF cue[i].preWaitTimer
                     THEN ~cue'[i].preWaitTimer /\ cue'[i].nTrigger = cue[i].nTrigger
                     ELSE cue[i].preWait <= 0 /\ cue'[i].nTrigger = cue[i].nTrigger + 1]_vars

\* a second trigger() arrived during the pre-wait
C19_Witness ==
    /\ last.op = "trigger"
    /\ last.was.status = "Loading"
    /\ last.was.preWaitTimer
    /\ cue[last.id].preWaitTimer
    /\ cue[last.id].nTrigger = 1
    /\ cue[last.id].nExecute = 0

\* the pre-wait timed out and the hook ran
C19_WitnessExpired ==
    /\ cue[1].preWait > 0
    /\ cue[1].status = "Playing"
    /\ cue[1].nTrigger = 1
    /\ cue[1].nExecute = 1

\* C20: for a kind createCueOfType makes (Audio, Group) and any integer
\* index, addCueAt puts the new cue at position min(max(index, 0), length),
\* keeps the cues that were in the list in their order and makes the list
\* one longer.
C20_AddCueAtClamps ==
    [][(last'.op = "addCueAt" /\ last'.type \in {"Audio", "Group"})
          => LET at == IF last'.index < 0 THEN 0
                       ELSE IF last'.index > Len(cues_) THEN Len(cues_)
                       ELSE last'.index
             IN  /\ last'.id \notin Range(cues_) \cup {NoId}
                 /\ Len(cues_') = Len(cues_) + 1
                 /\ cues_'[at + 1] = last'.id
                 /\ Without(cues_', {last'.id}) = cues_]_vars

\* a negative index put the cue in front of two others
C20_Witness ==
    /\ last.op = "addCueAt"
    /\ last.index < 0
    /\ Len(cues_) = 3
    /\ cues_[1] = last.id

\* an index beyond the length put the cue behind the others
C20_WitnessBeyond ==
    /\ last.op = "addCueAt"
    /\ last.index >= Len(cues_)
    /\ Len(cues_) >= 2
    /\ cues_[Len(cues_)] = last.id

\* an index inside the list put the cue between two others
C20_WitnessInside ==
    /\ last.op = "addCueAt"
    /\ last.index = 1
    /\ Len(cues_) = 3
    /\ cues_[2] = last.id

\* C16 (as claimed): addCueAt, removeCues and moveCues emit no signal while
\* they hold cueListLock_.
C16_Claimed ==
    last.op \in {"addCueAt", "removeCues", "moveCues"} => last.lockedEmits = {}

\* two QVariants are equal: the same value, of the same kind or both numbers
SameVariant(a, b) ==
    /\ a.v = b.v
    /\ a.t = b.t \/ {a.t, b.t} \subseteq {"int", "double"}

\* C17 (as claimed): fromJson(toJson(c)) on a freshly constructed cue of
\* the same kind gives a cue equal to c in id, kind, number, name, status,
\* armed, flagged, continueMode, color, notes, duration, preWait, postWait,
\* targetId, the three timestamps and every custom property.
C17_Claimed ==
    last.op = "fromJson"
        => /\ \A f \in {"id", "type", "number", "name", "status", "armed", "flagged",
                         "continueMode", "color", "notes", "duration", "preWait",
                         "postWait", "targetId", "createdTime", "modifiedTime",
                         "lastExecutedTime"} : cue[2][f] = cue[1][f]
           /\ cue[1].lastExecutedTime => cue[2].lastExecutedAt = cue[1].lastExecutedAt
           /\ \A k \in PropertyKeys :
                 SameVariant(cue[2].customProperties[k], cue[1].customProperties[k])

\* C21: addCueAt with a kind createCueOfType does not make returns an empty
\* id, leaves the cue objects, the list, the selection, the standby, the
\* active set and the unsaved-changes flag as they were and emits no signal.
C21_AddCueAtUnsupportedKind ==
    [][(last'.op = "addCueAt" /\ last'.type \notin {"Audio", "Group"})
          => /\ last'.id = NoId
             /\ UNCHANGED <<cue, cues_, selectedCueIds_, standByCueId_, activeCues_,
                            hasUnsavedChanges_>>
             /\ last'.emits = <<>>]_vars

\* a Video cue was asked for while cues are in the list and selected
C21_Witness ==
    /\ last.op = "addCueAt"
    /\ last.type = "Video"
    /\ last.id = NoId
    /\ Len(cues_) = 2
    /\ selectedCueIds_ # <<>>

\* C22: removeCues called with ids none of which is in the list returns
\* false and changes nothing: the cue objects, the list, the selection, the
\* standby, the active set and the unsaved-changes flag stay, and no signal
\* is emitted.
C22_RemoveAbsentChangesNothing ==
    [][(last'.op = "removeCues" /\ last'.absent)
          => /\ ~last'.ok
             /\ UNCHANGED <<cue, cues_, selectedCueIds_, standByCueId_, activeCues_,
                            hasUnsavedChanges_>>
             /\ last'.emits = <<>>]_vars

\* ids that are not in the list were passed while a cue is selected
C22_Witness ==
    /\ last.op = "removeCues"
    /\ last.absent
    /\ cues_ # <<>>
    /\ selectedCueIds_ # <<>>

\* C23: moveCues(ids, newIndex) returns false and leaves the list as it was
\* when ids is empty, when newIndex < 0 or newIndex > length, or when no id
\* is in the list; otherwise it returns true and moves the cues whose ids
\* are in the list exactly as if the other ids had not been passed.
C23_MoveCuesRefusals ==
    last.op = "moveCues"
        => LET before == last.before
               present == Range(last.ids) \cap Range(before)
               start == last.idx
                          - Cardinality({k \in 1..last.idx : before[k] \in present})
           IN  IF \/ last.ids = <<>>
                  \/ last.idx < 0
                  \/ last.idx > Len(before)
                  \/ present = {}
               THEN ~last.ok /\ cues_ = before
               ELSE last.ok /\ cues_ = Spliced(before, Within(before, present), start)

\* an index beyond the length was refused
C23_Witness ==
    /\ last.op = "moveCues"
    /\ ~last.ok
    /\ last.ids # <<>>
    /\ Range(last.ids) \subseteq Range(last.before)
    /\ last.idx = Len(last.before) + 1

\* an id that is not in the list was skipped and the other cue moved
C23_WitnessSkipped ==
    /\ last.op = "moveCues"
    /\ last.ok
    /\ Len(last.ids) = 2
    /\ last.ids[1] \notin Range(last.before)
    /\ cues_ # last.before

\* no id passed was in the list
C23_WitnessAbsent ==
    /\ last.op = "moveCues"
    /\ ~last.ok
    /\ last.ids # <<>>
    /\ Range(last.ids) \cap Range(last.before) = {}
    /\ last.idx \in 0..Len(last.before)
    /\ Len(last.before) = 3

\* C24 (as claimed): after resequenceCues(start, increment) with a start
\* that is a number, the i-th cue of the list (i from 0) has the number
\* start + i * increment, for whole and for fractional increments.
C24_Claimed ==
    (last.op = "resequenceCues" /\ last.ok)
        => \A k \in 1..Len(cues_) :
              LET n == toDouble(cue[cues_[k]].number)
                  want == [num |-> last.start.num * last.increment.den
                                     + (k - 1) * last.increment.num * last.start.den,
                           den |-> last.start.den * last.increment.den]
              IN  n.ok /\ n.num * want.den = want.num * n.den

\* C25 (as claimed): after each of addCueAt, removeCues, moveCues,
\* createGroupFromCues and ungroupCues has returned, every selected id is
\* the id of a cue of the top-level list.
C25_Claimed ==
    last.op \in {"addCueAt", "removeCues", "moveCues", "createGroupFromCues", "ungroupCues"}
        => Range(selectedCueIds_) \subseteq Range(cues_)

\* how often the id is in the list
Occurrences(list, id) == Cardinality({k \in 1..Len(list) : list[k] = id})

\* the places (group, position) of the id in the child lists of live groups
ChildPlaces(id) ==
    {p \in Ids \X (1..Cardinality(Ids)) :
        /\ IsGroup(p[1])
        /\ p[2] <= Len(cue[p[1]].children)
        /\ cue[p[1]].children[p[2]] = id}

C27_WitnessUngrouped ==
    /\ last.op = "ungroupCues"
    /\ last.ok
    /\ Len(cues_) = 3
    /\ \A i \in Range(cues_) : ChildPlaces(i) = {}

\* the children getFlattenedCues shows for the cue: those of an expanded
\* group (one without an entry in the map is expanded)
Shown(id) ==
    IF /\ IsGroup(id)
       /\ (id \notin DOMAIN groupExpansionState_ \/ groupExpansionState_[id])
    THEN cue[id].children ELSE <<>>

\* the number of children shown in front of the k-th cue of the list
RECURSIVE ShownBefore(_)
ShownBefore(k) == IF k <= 1 THEN 0 ELSE ShownBefore(k - 1) + Len(Shown(cues_[k - 1]))

\* C28: getFlattenedCues() returns the cues of the top-level list in order,
\* each expanded group followed at once by its children in child order and
\* each collapsed group by none of them, and nothing else; the call changes
\* no state of the manager or of a cue.
C28_FlattenedView ==
    /\ [](last.op = "getFlattenedCues"
            => /\ Len(last.out) = Len(cues_) + ShownBefore(Len(cues_) + 1)
               /\ \A k \in 1..Len(cues_) :
                     LET at == k + ShownBefore(k)
                     IN  /\ last.out[at] = cues_[k]
                         /\ SubSeq(last.out, at + 1, at + Len(Shown(cues_[k])))
                               = Shown(cues_[k]))
    /\ [][last'.op = "getFlattenedCues"
            => UNCHANGED <<cue, cues_, selectedCueIds_, standByCueId_, activeCues_,
                           isPaused_, hasUnsavedChanges_, groupExpansionState_>>]_vars

\* a collapsed group with two children shows none of them
C28_Witness ==
    /\ last.op = "getFlattenedCues"
    /\ \E g \in Range(cues_) :
          /\ IsGroup(g)
          /\ Len(cue[g].children) = 2
          /\ g \in DOMAIN groupExpansionState_
          /\ ~groupExpansionState_[g]
    /\ last.out = cues_
    /\ Len(cues_) = 2

\* an expanded group shows its two children in front of the next cue
C28_WitnessExpanded ==
    /\ last.op = "getFlattenedCues"
    /\ Len(cues_) = 2
    /\ IsGroup(cues_[1])
    /\ Len(last.out) = 4
    /\ last.out = <<cues_[1]>> \o cue[cues_[1]].children \o <<cues_[2]>>

\* C26 (as claimed): addCueAt, removeCues, moveCues and selectCues emit
\* selectionChanged only when the selection after the call differs from the
\* selection before it.
C26_Claimed ==
    [][(/\ last'.op \in {"addCueAt", "removeCues", "moveCues", "selectCues"}
        /\ "selectionChanged" \in Range(last'.emits))
          => selectedCueIds_' # selectedCueIds_]_vars

\* C29: a tick of the execution timer takes out of the active set exactly
\* the cues that are neither Playing nor Loading, keeps the others in their
\* order, and changes nothing else: no cue, not the list, the selection, the
\* standby, the pause flag or the unsaved-changes flag.
C29_PumpPrunesOnly ==
    [][last'.op = "processCueExecution"
          => /\ activeCues_' = SelectSeq(activeCues_, LAMBDA i : Executing(cue[i]))
             /\ last'.hit = {i \in Range(activeCues_) : ~Executing(cue[i])}
             /\ UNCHANGED <<cue, cues_, selectedCueIds_, standByCueId_, isPaused_,
                            hasUnsavedChanges_, groupExpansionState_>>]_vars

\* the tick dropped a paused cue and kept one that is executing
C29_Witness ==
    /\ last.op = "processCueExecution"
    /\ \E i \in last.hit : cue[i].status = "Paused"
    /\ activeCues_ # <<>>
    /\ \A i \in Range(activeCues_) : Executing(cue[i])

\* C30 (as claimed): selectCues, removeCues and advanceStandBy read and
\* write selectedCueIds_ only while holding selectionMutex_ and
\* standByCueId_ only while holding playheadMutex_.
C30_Claimed ==
    last.op \in {"selectCues", "removeCues", "advanceStandBy"} => last.unguarded = {}

\* ------------------------------------------------------------------- C31

\* the number of cues of list before 0-based index first that are not in S
UngroupedBefore(list, S, first) ==
    Cardinality({k \in 1..first : list[k] \notin S})

\* C31: a successful createGroupFromCues leaves the cues it did not group in
\* their order and puts the group where the grouped cue of least index was,
\* counted in the list without the grouped cues; that index is within the
\* bounds of that list.
C31_GroupTakesFirstPlace ==
    (last.op = "createGroupFromCues" /\ last.ok) =>
        LET S == Range(Grouped(last.before, last.ids))
            others == Without(last.before, S)
            at == UngroupedBefore(last.before, S, FirstIndex(last.before, S))
        IN  /\ at \in 0..Len(others)
            /\ cues_ = SubSeq(others, 1, at) \o <<last.id>>
                          \o SubSeq(others, at + 1, Len(others))

\* the second and third of three cues were grouped, the later one named first
C31_Witness ==
    /\ last.op = "createGroupFromCues"
    /\ last.ok
    /\ Len(last.before) = 3
    /\ last.ids = <<last.before[3], last.before[2]>>
    /\ cues_ = <<last.before[1], last.id>>

\* cues on both sides of the group stay: the middle one of three was grouped
C31_WitnessMiddle ==
    /\ last.op = "createGroupFromCues"
    /\ last.ok
    /\ Len(last.before) = 3
    /\ cues_ = <<last.before[1], last.id, last.before[3]>>

\* ------------------------------------------------------------------- C32

\* C32 (as claimed): no manager operation asks for cueListLock_ while its
\* own thread holds it for writing, so addCueAt, removeCues and
\* createGroupFromCues never block on themselves.
C32_Claimed ==
    last.op \in {"addCueAt", "removeCues", "createGroupFromCues"} => ~last.relock

\* ------------------------------------------- specification: calls in parallel

\* What a call does with cueListLock_, selectionMutex_ and playheadMutex_,
\* in order: <<"lockForRead", l>>, <<"lockForWrite", l>> and <<"lock", l>>
\* are a QReadLocker, a QWriteLocker and a QMutexLocker on l, <<"unlock", l>>
\* the end of the latest locker on l.

\* CueManager::getCue
getCueLocks == <<<<"lockForRead", "cueListLock_">>, <<"unlock", "cueListLock_">>>>

\* n calls in a row
RECURSIVE Times(_, _)
Times(n, steps) == IF n = 0 THEN <<>> ELSE steps \o Times(n - 1, steps)

\* CueManager::setStandByCue
setStandByCueLocks == <<<<"lock", "playheadMutex_">>, <<"unlock", "playheadMutex_">>>>

\* CueManager::getStandByCue
getStandByCueLocks ==
    <<<<"lock", "playheadMutex_">>>> \o getCueLocks \o <<<<"unlock", "playheadMutex_">>>>

\* CueManager::selectCues of n ids
selectCuesLocks(n) ==
    <<<<"lock", "selectionMutex_">>>> \o Times(n, getCueLocks)
        \o <<<<"unlock", "selectionMutex_">>>>

\* CueManager::moveSelectedCues: moveCues inside the QMutexLocker
moveSelectedCuesLocks ==
    <<<<"lock", "selectionMutex_">>, <<"lockForWrite", "cueListLock_">>,
      <<"unlock", "cueListLock_">>, <<"unlock", "selectionMutex_">>>>

\* CueManager::updateStandByCue; lost: getCue finds no standby cue, and
\* findNextExecutableCue and setStandByCue are called
updateStandByCueLocks(lost) ==
    getCueLocks \o (IF lost THEN getCueLocks \o setStandByCueLocks ELSE <<>>)

\* CueManager::ensureValidSelection with n ids selected
ensureValidSelectionLocks(n) == selectCuesLocks(n)

\* CueManager::removeCues; any: an id was found, n: ids still selected
removeCuesLocks(any, lost, n) ==
    <<<<"lockForWrite", "cueListLock_">>>>
        \o (IF any THEN updateStandByCueLocks(lost) \o ensureValidSelectionLocks(n)
            ELSE <<>>)
        \o <<<<"unlock", "cueListLock_">>>>

\* the calls a thread makes, with what decides their path
ParallelCalls ==
    {[op |-> "setStandByCue", todo |-> setStandByCueLocks],
     [op |-> "getStandByCue", todo |-> getStandByCueLocks],
     [op |-> "moveSelectedCues", todo |-> moveSelectedCuesLocks]}
    \cup {[op |-> "selectCues", todo |-> selectCuesLocks(n)] : n \in 0..MaxLookups}
    \cup {[op |-> "removeCues", todo |-> removeCuesLocks(any, lost, n)] :
            any \in BOOLEAN, lost \in BOOLEAN, n \in 0..MaxLookups}

\* the holdings of other threads that keep thread t from taking lock l as
\* step says: anything for a mutex or a write lock, a write lock for a read
\* lock.  What the thread holds itself is not looked at here.
Conflicts(step, held) ==
    {k \in 1..Len(held) :
        /\ held[k][2] = step[2]
        /\ step[1] = "lockForRead" => held[k][1] = "lockForWrite"}

Blockers(t) ==
    IF threads[t].todo = <<>> \/ Head(threads[t].todo)[1] = "unlock" THEN {}
    ELSE {u \in Threads \ {t} : Conflicts(Head(threads[t].todo), threads[u].held) # {}}

Waiting(t) == Blockers(t) # {}

\* held without its latest entry for lock l
dropLast(held, l) ==
    LET k == Max({j \in 1..Len(held) : held[j][2] = l})
    IN  SubSeq(held, 1, k - 1) \o SubSeq(held, k + 1, Len(held))

ParallelStep(t, now) ==
    /\ threads' = [threads EXCEPT ![t] = now]
    /\ UNCHANGED <<cue, cues_, selectedCueIds_, standByCueId_, activeCues_,
                   isPaused_, hasUnsavedChanges_, groupExpansionState_, last>>

\* thread t enters a manager call
Call(t) ==
    /\ threads[t] = Idle
    /\ \E call \in ParallelCalls :
          ParallelStep(t, [op |-> call.op, held |-> <<>>, todo |-> call.todo])

\* thread t is given the lock it asks for
Acquire(t) ==
    /\ threads[t].todo # <<>>
    /\ Head(threads[t].todo)[1] # "unlock"
    /\ ~Waiting(t)
    /\ ParallelStep(t, [threads[t] EXCEPT
                           !.held = Append(@, Head(threads[t].todo)),
                           !.todo = Tail(@)])

\* thread t ends its latest locker on the lock; after the last one the call
\* returns
Release(t) ==
    /\ threads[t].todo # <<>>
    /\ Head(threads[t].todo)[1] = "unlock"
    /\ ParallelStep(t, IF Tail(threads[t].todo) = <<>> THEN Idle
                       ELSE [threads[t] EXCEPT
                               !.held = dropLast(@, Head(threads[t].todo)[2]),
                               !.todo = Tail(@)])

NextParallel ==
    \E t \in Threads :
        \/ Call(t)
        \/ Acquire(t)
        \/ Release(t)

SpecParallel == InitEmpty /\ [][NextParallel]_vars

\* ------------------------------------------------------------------- C33

\* some threads wait for locks that only threads among them hold
Deadlock ==
    \E W \in SUBSET Threads :
        /\ W # {}
        /\ \A t \in W : Waiting(t) /\ Blockers(t) \subseteq W

\* C33 (as claimed): manager calls running on different threads never
\* wait for each other's locks in a circle.
C33_Claimed == ~Deadlock

\* ------------------------------------------------------------------- C34

\* C34 (as claimed): resume(), called while the manager is paused, leaves
\* every cue that is Paused (here only pause() pauses a cue) Playing and in
\* the active set, whatever happened since pause().
C34_Claimed ==
    [][(last'.op = "resume" /\ isPaused_)
          => \A i \in Ids :
                cue[i].status = "Paused"
                    => cue'[i].status = "Playing" /\ i \in Range(activeCues_')]_vars

\* ------------------------------------------------------------------- C38

\* the cues of the workspace: the top-level list and the cues its groups own
Owned == Range(cues_) \cup UNION {Descendants(cue, g) : g \in Range(cues_)}

\* C38 (as claimed): when panic() returns no cue of the workspace is
\* Playing, Loading or Paused.
C38_Claimed ==
    last.op = "panic" =>
        \A i \in Owned : cue[i].status \notin {"Playing", "Loading", "Paused"}

\* ------------------------------------------------------------------- C37

\* C37 (as claimed): every cue of the active set is a live cue of the
\* workspace.
C37_Claimed ==
    \A i \in Range(activeCues_) : cue[i].life = "live" /\ i \in Owned

\* ------------------------------------------------------------------- C36

\* C36 (as claimed): the standby id is empty or the id of a cue of the
\* top-level list.
C36_Claimed == standByCueId_ = NoId \/ standByCueId_ \in Range(cues_)

\* ------------------------------------------------------------------- C40

\* C40 (as claimed): removeCues leaves the standby id as it was unless it
\* removed the standby cue; an empty standby stays empty.
C40_Claimed ==
    [][(last'.op = "removeCues" /\ standByCueId_ \notin last'.removed)
          => standByCueId_' = standByCueId_]_vars

\* ------------------------------------------------------------------- C35

Permutation(s, t) ==
    /\ Len(s) = Len(t)
    /\ \A x \in Range(s) \cup Range(t) : Occurrences(s, x) = Occurrences(t, x)

\* C35 (as claimed): a successful moveCues leaves a permutation of the list
\* it found, also when an id is passed more than once.
C35_Claimed ==
    (last.op = "moveCues" /\ last.ok) => Permutation(last.before, cues_)

\* ------------------------------------------------------------------- C39

\* a tick of the execution timer keeps every executing cue of the active set
TickKeepsExecuting ==
    [][last'.op = "processCueExecution"
          => \A i \in Range(activeCues_) :
                Executing(cue[i]) => i \in Range(activeCues_')]_vars

\* C39 (as amended): a cue of the active set that is not executing is
\* eventually out of the active set or executing again (it was resumed or
\* triggered before the tick), as long as the execution timer keeps
\* ticking; a tick never removes a cue that is executing.
C39_TickPrunes ==
    /\ \A i \in Ids :
          (i \in Range(activeCues_) /\ ~Executing(cue[i]))
              ~> (i \notin Range(activeCues_) \/ Executing(cue[i]))
    /\ TickKeepsExecuting

\* a tick removed a cue that had ceased to execute and kept one that executes
C39_Witness ==
    /\ last.op = "processCueExecution"
    /\ last.hit # {}
    /\ \E i \in Range(activeCues_) : Executing(cue[i])

\* C39 (as claimed): a cue of the active set that is not executing is
\* eventually out of the active set.
C39_Claimed ==
    \A i \in Ids :
        (i \in Range(activeCues_) /\ ~Executing(cue[i])) ~> (i \notin Range(activeCues_))

====
